---- MODULE Spec2Model ----
(***************************************************************************)
(* Batch enrolment worker of the passport processor                        *)
(* (src/passport_gui.py, class PassportProcessor).                         *)
(*                                                                         *)
(* The worker thread runs PassportProcessor.run: it walks the list of      *)
(* passport files, extracts the fields of each one by OCR, gates on the    *)
(* computed age, replays the remote steps scan -> submit identity ->       *)
(* (companion lookup) -> upload x2 -> contact info -> disclosure, files    *)
(* the image in a disposition folder, and after the loop optionally        *)
(* creates a group and assigns the collected ids to it.                    *)
(*                                                                         *)
(* Texts (error messages, file names) are sequences of words; the Python   *)
(* test `"401" in s` is membership of the word "401" in the sequence.      *)
(***************************************************************************)
EXTENDS Integers, Sequences, FiniteSets, TLC

\* ------------------------------------------------------------------------
\* Bounds of the model
\* ------------------------------------------------------------------------
\* number of passport files of the batch
NumJobs == 3

\* ------------------------------------------------------------------------
\* Values
\* ------------------------------------------------------------------------
\* Python's None where an identifier is expected
NoId == 0

Jobs == 1..NumJobs

\* ------------------------------------------------------------------------
\* Texts
\* ------------------------------------------------------------------------
Contains(text, word) == \E k \in 1..Len(text) : text[k] = word

RECURSIVE Take(_, _)
Take(text, n) ==
    IF n = 0 \/ text = <<>> THEN <<>>
    ELSE <<Head(text)>> \o Take(Tail(text), n - 1)

StatusWord(code) ==
    CASE code = 401 -> "401"
      [] code = 403 -> "403"
      [] code = 500 -> "500"
      [] OTHER -> "000"

Msg401 == <<"401", "Unauthorized", "Invalid", "authentication", "token">>
MsgTimeout == <<"Request", "timeout">>
MsgConnection == <<"Connection", "error">>
MsgJson == <<"Expecting", "value">>

\* ------------------------------------------------------------------------
\* Calendar dates and calculate_age
\* ------------------------------------------------------------------------
Date(y, m, d) == [y |-> y, m |-> m, d |-> d]

NoDate == Date(0, 0, 0)

\* a date string "a<sep>b<sep>c" as the three numbers and the separator;
\* the empty string has the separator "", a text that is no date "?"
DateStr(sep, a, b, c) == [sep |-> sep, a |-> a, b |-> b, c |-> c]

EmptyStr == DateStr("", 0, 0, 0)
NotADate == DateStr("?", 0, 0, 0)

\* an optional integer: None or a value
NoAge == [ok |-> FALSE, val |-> 0]
Age(n) == [ok |-> TRUE, val |-> n]

IsLeap(y) == (y % 4 = 0 /\ y % 100 # 0) \/ y % 400 = 0

DaysIn(y, m) ==
    IF m = 2 THEN (IF IsLeap(y) THEN 29 ELSE 28)
    ELSE IF m \in {4, 6, 9, 11} THEN 30 ELSE 31

\* %Y takes four digits, %m and %d one or two
ValidDate(y, m, d) ==
    /\ y >= 1000 /\ y <= 9999
    /\ m >= 1 /\ m <= 12
    /\ d >= 1 /\ d <= 31
    /\ d <= DaysIn(y, m)

date_formats == <<"%Y-%m-%d", "%d-%m-%Y", "%m/%d/%Y", "%d/%m/%Y">>

\* datetime.strptime(s, fmt).date(), None for ValueError
strptime(s, fmt) ==
    CASE fmt = "%Y-%m-%d" ->
            IF s.sep = "-" /\ ValidDate(s.a, s.b, s.c)
            THEN Date(s.a, s.b, s.c) ELSE NoDate
      [] fmt = "%d-%m-%Y" ->
            IF s.sep = "-" /\ ValidDate(s.c, s.b, s.a)
            THEN Date(s.c, s.b, s.a) ELSE NoDate
      [] fmt = "%m/%d/%Y" ->
            IF s.sep = "/" /\ ValidDate(s.c, s.a, s.b)
            THEN Date(s.c, s.a, s.b) ELSE NoDate
      [] fmt = "%d/%m/%Y" ->
            IF s.sep = "/" /\ ValidDate(s.c, s.b, s.a)
            THEN Date(s.c, s.b, s.a) ELSE NoDate
      [] OTHER -> NoDate

RECURSIVE FirstParse(_, _)
FirstParse(s, k) ==
    IF k > Len(date_formats) THEN NoDate
    ELSE IF strptime(s, date_formats[k]) # NoDate
         THEN strptime(s, date_formats[k])
         ELSE FirstParse(s, k + 1)

\* the comparison taken as "not after": the birthday itself still counts as before
MonthDayBefore_OrOn(t, b) == t.m < b.m \/ (t.m = b.m /\ t.d <= b.d)

MonthDayBefore(t, b) == t.m < b.m \/ (t.m = b.m /\ t.d < b.d)

calculate_age(birth_date_str, today) ==
    IF birth_date_str = EmptyStr THEN NoAge
    ELSE LET birth_date == FirstParse(birth_date_str, 1) IN
         IF birth_date = NoDate THEN NoAge
         ELSE Age(today.y - birth_date.y
                  - (IF MonthDayBefore(today, birth_date) THEN 1 ELSE 0))

\* variant: the gate set at the age of majority
age_below_zero_Below18(age) == age < 18

\* if age < 0
age_below_zero(age) == age < 0

\* the test of run() that routes a job to the under-age folder
under_age_gate(birth_date_str, today) ==
    LET age == calculate_age(birth_date_str, today) IN
    birth_date_str # EmptyStr /\ age.ok /\ age_below_zero(age.val)

\* ------------------------------------------------------------------------
\* Document transport: responses, exceptions, the wrappers' try/except
\* ------------------------------------------------------------------------
\* what requests.post can produce: a 2xx with a JSON body ("full" carries
\* every expected key, "nokeys" is a non-empty body without them, "empty"
\* is a falsy body), a 2xx whose body is no JSON, a 401, another status
\* with some body text, a timeout, a connection failure
Jsons == {"full", "nokeys", "empty"}

Bodies == {<<"Internal", "Server", "Error">>, <<"upstream", "code", "401">>}

Resp(k, code, body, json) ==
    [k |-> k, code |-> code, body |-> body, json |-> json]

Responses ==
    {Resp("ok", 200, <<>>, j) : j \in Jsons}
    \cup {Resp("badjson", 200, <<>>, "empty")}
    \cup {Resp("status", 401, <<"Unauthorized">>, "empty")}
    \cup {Resp("status", 500, b, "empty") : b \in Bodies}
    \cup {Resp("timeout", 0, <<>>, "empty"), Resp("conn", 0, <<>>, "empty")}

Exc(type, status, msg) == [type |-> type, status |-> status, msg |-> msg]
NoExc == Exc("", 0, <<>>)

Raise(e) == [raised |-> TRUE, exc |-> e, val |-> "empty"]
Return(v) == [raised |-> FALSE, exc |-> NoExc, val |-> v]

\* the body shared by the wrappers: post, the 401 test, raise_for_status,
\* response.json(), and the except clauses around them
Transport(prefix, r) ==
    CASE r.k = "timeout" -> Raise(Exc("Exception", 0, MsgTimeout))
      [] r.k = "conn" -> Raise(Exc("Exception", 0, MsgConnection))
      [] r.k = "status" /\ r.code = 401 ->
            Raise(Exc("HTTPError", 401, Msg401))
      [] r.k = "status" /\ r.code # 401 ->
            Raise(Exc("Exception", 0,
                      <<"HTTP", StatusWord(r.code)>> \o r.body))
      [] r.k = "badjson" -> Raise(Exc("Exception", 0, prefix \o MsgJson))
      [] OTHER -> Return(r.json)

scan_passport_api(exists, path, r) ==
    IF ~exists
    THEN Raise(Exc("Exception", 0, <<"Image", "file", "not", "found">> \o path))
    ELSE Transport(<<"Passport", "scanning", "failed">>, r)

\* the payload is built from the scan result before the request is sent
submit_initial_info_api(scanned, r) ==
    IF scanned # "full"
    THEN Raise(Exc("Exception", 0, <<"Missing", "required", "data">>))
    ELSE Transport(<<"Failed", "to", "submit", "initial", "passport", "info">>, r)

upload_attachment_api(exists, path, r) ==
    IF ~exists
    THEN Raise(Exc("Exception", 0,
                   <<"Attachment", "file", "not", "found">> \o path))
    ELSE LET t == Transport(<<"Failed", "to", "upload", "attachment">>, r) IN
         IF ~t.raised /\ t.val # "full"
         THEN Raise(Exc("Exception", 0,
                        <<"Failed", "to", "upload", "attachment",
                          "No", "attachment", "data", "returned">>))
         ELSE t

submit_full_info_api(r) ==
    Transport(<<"Failed", "to", "submit", "personal", "and", "contact", "info">>, r)

submit_disclosure_api(r) ==
    Transport(<<"Failed", "to", "submit", "disclosure", "form">>, r)

get_mutamer_companions(r) ==
    Transport(<<"Failed", "to", "get", "mutamer", "companions">>, r)

ApiErrorPrefix == <<"API", "processing", "error">>

\* except Exception as e: raise Exception(f"API processing error: {str(e)}")
ApiProcessingError(e) ==
    Exc("Exception", 0, ApiErrorPrefix \o e.msg)

\* the two except clauses of the job loop: is the batch halted?
IsAuthFailure(e) ==
    IF e.type = "HTTPError"
    THEN e.status = 401
    ELSE Contains(e.msg, "401") \/ Contains(e.msg, "Unauthorized")

\* error_msg handed to move_error_file
ErrorMsg(e) ==
    IF e.type = "HTTPError"
    THEN <<"HTTP", "Error", StatusWord(e.status)>> \o e.msg
    ELSE e.msg

\* ------------------------------------------------------------------------
\* File names of the disposition folders
\* ------------------------------------------------------------------------

PathOf(j) == <<"passport", "jpg">>

ProcessedName(filename) == <<"timestamp">> \o filename
UnderAgeName(filename) == <<"timestamp", "UNDERAGE">> \o filename
\* error_part: of the first 50 characters of the cleaned message the model
\* keeps the leading words, those of the prefix every message begins with
ErrorPart(error_message) == Take(error_message, Len(ApiErrorPrefix))

ErrorName(error_message, filename) ==
    <<"timestamp", "ERROR">> \o ErrorPart(error_message) \o filename

\* ------------------------------------------------------------------------
\* Field normalisation: clean_passport_data and the derived fields of
\* submit_full_info_api.  A string is the sequence of its characters.
\* ------------------------------------------------------------------------
\* Python's None where a string is expected
PyNone == <<"None">>

Lowercase == <<"a", "b", "c", "d", "e", "f", "g", "h", "i", "j", "k", "l", "m",
               "n", "o", "p", "q", "r", "s", "t", "u", "v", "w", "x", "y", "z">>
Uppercase == <<"A", "B", "C", "D", "E", "F", "G", "H", "I", "J", "K", "L", "M",
               "N", "O", "P", "Q", "R", "S", "T", "U", "V", "W", "X", "Y", "Z">>

\* [A-Za-z]
IsLetter(c) == \E k \in 1..26 : c = Lowercase[k] \/ c = Uppercase[k]

\* \s and the separator of str.split()
IsSpace(c) == c = " "

\* str.lower()
LowerChar(c) ==
    IF \E k \in 1..26 : c = Uppercase[k]
    THEN Lowercase[CHOOSE k \in 1..26 : c = Uppercase[k]]
    ELSE c

Lower(s) == [k \in 1..Len(s) |-> LowerChar(s[k])]

RECURSIVE LStrip(_)
LStrip(s) ==
    IF s # <<>> /\ IsSpace(Head(s)) THEN LStrip(Tail(s)) ELSE s

RECURSIVE RStrip(_)
RStrip(s) ==
    IF s # <<>> /\ IsSpace(s[Len(s)]) THEN RStrip(SubSeq(s, 1, Len(s) - 1))
    ELSE s

\* str.strip()
Strip(s) == LStrip(RStrip(s))

KeepsLetterOrSpace(c) == IsLetter(c) \/ IsSpace(c)

\* re.sub(r'[^A-Za-z\s]', '', s)
RemoveSpecial(s) == SelectSeq(s, KeepsLetterOrSpace)

\* ' '.join(s.split()): no leading or trailing blank, one blank per run
RECURSIVE JoinSplit(_)
JoinSplit(s) ==
    LET t == Strip(s) IN
    IF t = <<>> THEN <<>>
    ELSE IF Len(t) >= 2 /\ IsSpace(t[2])
    THEN <<Head(t), " ">> \o JoinSplit(Tail(t))
    ELSE <<Head(t)>> \o JoinSplit(Tail(t))

NullWord == <<"n", "u", "l", "l">>
NoneWord == <<"n", "o", "n", "e">>

\* the cleaning without the ' '.join(split()) line
cleaned_name_NoCollapse(field_value) ==
    IF field_value = PyNone \/ field_value = NullWord \/ field_value = <<>>
    THEN <<>>
    ELSE LET field_str == Strip(field_value) IN
         IF field_str = <<>> \/ Lower(field_str) = NullWord
                             \/ Lower(field_str) = NoneWord
         THEN <<>>
         ELSE RemoveSpecial(field_str)

\* the body of the loop of clean_passport_data for one field value
cleaned_name(field_value) ==
    IF field_value = PyNone \/ field_value = NullWord \/ field_value = <<>>
    THEN <<>>
    ELSE LET field_str == Strip(field_value) IN
         IF field_str = <<>> \/ Lower(field_str) = NullWord
                             \/ Lower(field_str) = NoneWord
         THEN <<>>
         ELSE JoinSplit(RemoveSpecial(field_str))

name_fields == {"first_name", "last_name", "husband_name", "father_name"}

\* clean_passport_data: the name fields present are cleaned in place
clean_passport_data(passport_data) ==
    [f \in DOMAIN passport_data |->
        IF f \in name_fields THEN cleaned_name(passport_data[f])
        ELSE passport_data[f]]

\* (value or ""): None and "" are both falsy
OrEmpty(v) == IF v = PyNone THEN <<>> ELSE v

Truthy(v) == v # PyNone /\ v # <<>>

\* the fallback with the father's name tried before the husband's
last_name_en_FatherFirst(personal_data) ==
    LET own == Strip(OrEmpty(personal_data.last_name))
        chosen ==
            IF own # <<>> THEN own
            ELSE IF Truthy(personal_data.father_name)
            THEN Strip(OrEmpty(personal_data.father_name))
            ELSE IF personal_data.married /\ Truthy(personal_data.husband_name)
            THEN Strip(OrEmpty(personal_data.husband_name))
            ELSE <<>>
    IN RemoveSpecial(chosen)

\* familyName.en of the payload of submit_full_info_api
last_name_en(personal_data) ==
    LET own == Strip(OrEmpty(personal_data.last_name))
        chosen ==
            IF own # <<>> THEN own
            ELSE IF personal_data.married /\ Truthy(personal_data.husband_name)
            THEN Strip(OrEmpty(personal_data.husband_name))
            ELSE IF Truthy(personal_data.father_name)
            THEN Strip(OrEmpty(personal_data.father_name))
            ELSE <<>>
    IN RemoveSpecial(chosen)

martial_status_map == [single |-> 1, married |-> 2]

\* the rules with the married flag not consulted for sex F
marital_and_profession_AnyFemale(sex, married) ==
    IF sex = "M"
    THEN [martial_status_id |-> martial_status_map["single"],
          profession |-> "Business"]
    ELSE IF sex = "F"
    THEN [martial_status_id |-> martial_status_map["married"],
          profession |-> "Housewife"]
    ELSE [martial_status_id |-> martial_status_map["single"],
          profession |-> "Household"]

\* the marital status and profession rules of submit_full_info_api
marital_and_profession(sex, married) ==
    IF sex = "M"
    THEN [martial_status_id |-> martial_status_map["single"],
          profession |-> "Business"]
    ELSE IF sex = "F" /\ married
    THEN [martial_status_id |-> martial_status_map["married"],
          profession |-> "Housewife"]
    ELSE [martial_status_id |-> martial_status_map["single"],
          profession |-> "Household"]

\* ------------------------------------------------------------------------
\* Inputs drawn from the environment
\* ------------------------------------------------------------------------
\* date.today() as read by calculate_age
Todays == {Date(2024, 5, 14), Date(2024, 5, 15)}

\* date_of_birth as returned by the OCR
BirthDates ==
    {EmptyStr, NotADate,
     DateStr("-", 1990, 5, 15), DateStr("-", 15, 5, 1990),
     DateStr("/", 5, 15, 1990), DateStr("/", 15, 5, 1990),
     DateStr("-", 2024, 5, 15), DateStr("-", 2031, 1, 1)}

\* json.loads of the OCR answer: None (exception), {} or the fields
OcrNone == [kind |-> "none", date_of_birth |-> EmptyStr]
OcrEmpty == [kind |-> "empty", date_of_birth |-> EmptyStr]
OcrData(dob) == [kind |-> "fields", date_of_birth |-> dob]
OcrResults == {OcrNone, OcrEmpty} \cup {OcrData(d) : d \in BirthDates}

\* iqama_image_path when "use separate Iqama" is checked, NoPath otherwise
NoPath == <<>>
IqamaPaths == {<<"iqama", "jpg">>}

\* the companion mapping of a file and what GetListOfMutamerCompanions lists
MappedNumber == "AB123"
Companion(pn, id, gender) == [passportNumber |-> pn, id |-> id, gender |-> gender]
CompanionLists ==
    {<<>>,
     <<Companion("ab123", 71, 1)>>,
     <<Companion("XY999", 70, 2), Companion("AB123", 72, 2)>>,
     <<Companion("AB123", 73, 0)>>}

\* ------------------------------------------------------------------------
\* State
\* ------------------------------------------------------------------------
VARIABLES
    passport_files,          \* self.passport_files: for each job its file
    create_group,            \* self.create_group
    iqama_image_path,        \* self.iqama_image_path, NoPath when not used
    pc,                      \* where the worker is in run()
    i,                       \* 1-based index of the job of the loop
    cur,                     \* locals of the job in flight
    should_stop_processing,
    processed_count,
    error_count,
    under_age_count,
    mutamer_ids,
    loc,                     \* folder each source file is in
    outcome,                 \* how each job ended
    called,                  \* jobs for which a remote call was issued
    group_calls,             \* group-formation calls issued, in order
    group_id,                \* id returned by CreateGroup
    signals,                 \* notifications emitted, in order
    gui,                     \* the window: start_btn and the slots' progress
    fn                       \* a normalisation function under test: its
                             \* argument, its result, how often applied

config == <<passport_files, create_group, iqama_image_path>>

\* the file of job j: the first position of the list that holds its path
FileOf(j) == passport_files[j]
counters == <<processed_count, error_count, under_age_count>>
groupv == <<group_calls, group_id>>
vars == <<passport_files, create_group, iqama_image_path, pc, i, cur, should_stop_processing,
          processed_count, error_count, under_age_count, mutamer_ids, loc,
          outcome, called, group_calls, group_id, signals, gui, fn>>

\* no function under test: the batch run
NoCall == [op |-> "", n |-> 0, arg |-> <<>>, res |-> <<>>]

use_separate_iqama == iqama_image_path # NoPath

Sig(name, val) == [sig |-> name, val |-> val]

\* locals of one loop iteration; job = 0 before the first one
CurInit(j, mapped, counts) ==
    [job |-> j,
     mapped |-> mapped,            \* image_path in self.companion_mappings
     ocr_kind |-> "",              \* what extract_passport_data returned
     negative_age |-> FALSE,       \* calculate_age gave a value below 0
     scanned |-> "empty",          \* scanned_data
     mutamer_id |-> NoId,
     companion_id |-> NoId,
     companion_gender |-> 0,
     calls |-> <<>>,               \* remote calls of this job, in order
     failed |-> "",                \* the latest call, if it failed without a 401
     got401 |-> "",                \* the latest call, if it returned 401
     moved_name |-> <<>>,          \* name the file was moved to
     stray |-> {},                 \* folders holding a copy a failed move left
     listed |-> "",                \* what the companion list held for the number
     companion_fields |-> <<>>,    \* companionId, relativeRelationId as sent
     before |-> counts]             \* the counters when the job began

\* the window when start_processing has started the worker: the start
\* button disabled, no notification handled yet
GuiStarted ==
    [start_btn |-> FALSE,      \* self.start_btn.isEnabled()
     handled |-> 0,            \* error and finished notifications handled
     restarted |-> FALSE,      \* start_processing has run a second time
     overlap |-> FALSE]        \* ... while the first worker was still in run()

Init ==
    /\ passport_files = [j \in Jobs |-> j]
    /\ create_group \in BOOLEAN
    /\ iqama_image_path \in {NoPath} \cup IqamaPaths
    /\ pc = "loop"
    /\ i = 1
    /\ cur = CurInit(0, FALSE, <<0, 0, 0>>)
    /\ should_stop_processing = FALSE
    /\ processed_count = 0
    /\ error_count = 0
    /\ under_age_count = 0
    /\ mutamer_ids = <<>>
    /\ loc = [j \in Jobs |-> "input"]
    /\ outcome = [j \in Jobs |-> "pending"]
    /\ called = {}
    /\ group_calls = <<>>
    /\ group_id = NoId
    /\ signals = <<>>
    /\ gui = GuiStarted
    /\ fn = NoCall

\* int((i + 1) / total_passports * 100), i counted from 0 in the code
Progress(k) == (k * 100) \div NumJobs

\* ------------------------------------------------------------------------
\* How a loop iteration ends
\* ------------------------------------------------------------------------
\* the locals of process_passport_api are dead once the iteration ends
Ended(c) ==
    [c EXCEPT !.mapped = FALSE, !.scanned = "empty", !.mutamer_id = NoId,
              !.companion_id = NoId, !.companion_gender = 0,
              !.negative_age = FALSE, !.stray = {}, !.listed = "",
              !.companion_fields = <<>>]

\* shutil.move(src, dst): the file is renamed; or, when the rename is
\* refused, copied and the source then unlinked.  It raises with nothing
\* done, or after the copy was made when the source cannot be removed.
\* The two failures differ only while the job goes on, that is for the
\* under-age move; the move that ends a job has the outcomes moved or not.
MoveOutcomes == {"moved", "failed", "copied"}

\* c after a move into folder that ended as mv, the new name being name
AfterMove(c, mv, folder, name) ==
    [c EXCEPT !.moved_name = IF mv = "moved" THEN name ELSE <<>>,
              !.stray = IF mv = "copied" THEN @ \cup {folder} ELSE @]

\* variant: the loop index is advanced twice
Continue_Skips ==
    /\ i' = i + 2
    /\ pc' = "loop"

\* continue
Continue ==
    /\ i' = i + 1
    /\ pc' = "loop"

\* variant: the 401 branch also files and counts the job as an error
AuthHalt_Counted(c) ==
    /\ cur' = [Ended(c) EXCEPT !.calls = <<>>]
    /\ signals' = Append(signals, Sig("error", <<401>>))
    /\ should_stop_processing' = TRUE
    /\ outcome' = [outcome EXCEPT ![i] = "halted"]
    /\ loc' = [loc EXCEPT ![FileOf(i)] = "error"]
    /\ error_count' = error_count + 1
    /\ pc' = "group"
    /\ UNCHANGED <<i, processed_count, under_age_count, mutamer_ids>>

\* variant: the 401 branch returns from run() instead of leaving the loop
AuthHalt_Returns(c) ==
    /\ cur' = [Ended(c) EXCEPT !.calls = <<>>]
    /\ signals' = Append(signals, Sig("error", <<401>>))
    /\ should_stop_processing' = TRUE
    /\ outcome' = [outcome EXCEPT ![i] = "halted"]
    /\ pc' = "finally"
    /\ UNCHANGED <<i, counters, mutamer_ids, loc>>

\* the 401 branches of the except clauses: notify, set the flag, break
AuthHalt(c) ==
    /\ cur' = [Ended(c) EXCEPT !.calls = <<>>]
    /\ signals' = Append(signals, Sig("error", <<401>>))
    /\ should_stop_processing' = TRUE
    /\ outcome' = [outcome EXCEPT ![i] = "halted"]
    /\ pc' = "group"
    /\ UNCHANGED <<i, counters, mutamer_ids, loc>>

\* variant: the job was counted as processed before its last step failed
ErrorOut_CountedBefore(c, e) ==
    \E moved \in BOOLEAN :
        /\ cur' = [Ended(c) EXCEPT !.moved_name =
                      IF moved THEN ErrorName(ErrorMsg(e), PathOf(i)) ELSE <<>>]
        /\ loc' = IF moved THEN [loc EXCEPT ![FileOf(i)] = "error"] ELSE loc
        /\ error_count' = error_count + 1
        /\ processed_count' = IF c.mutamer_id # NoId
                               THEN processed_count + 1 ELSE processed_count
        /\ outcome' = [outcome EXCEPT ![i] = "errored"]
        /\ Continue
        /\ UNCHANGED <<under_age_count, mutamer_ids, should_stop_processing,
                       signals>>

\* variant: the id is collected as soon as submitIdentity returned it
ErrorOut_KeepsId(c, e) ==
    \E moved \in BOOLEAN :
        /\ cur' = [Ended(c) EXCEPT !.moved_name =
                      IF moved THEN ErrorName(ErrorMsg(e), PathOf(i)) ELSE <<>>]
        /\ loc' = IF moved THEN [loc EXCEPT ![FileOf(i)] = "error"] ELSE loc
        /\ error_count' = error_count + 1
        /\ mutamer_ids' = IF c.mutamer_id # NoId
                          THEN Append(mutamer_ids, c.mutamer_id)
                          ELSE mutamer_ids
        /\ outcome' = [outcome EXCEPT ![i] = "errored"]
        /\ Continue
        /\ UNCHANGED <<processed_count, under_age_count,
                       should_stop_processing, signals>>

\* the other branches: move_error_file, error_count += 1, continue
ErrorOut(c, e) ==
    \E moved \in BOOLEAN :
        /\ cur' = [Ended(c) EXCEPT !.moved_name =
                      IF moved THEN ErrorName(ErrorMsg(e), PathOf(i)) ELSE <<>>]
        /\ loc' = IF moved THEN [loc EXCEPT ![FileOf(i)] = "error"] ELSE loc
        /\ error_count' = error_count + 1
        /\ outcome' = [outcome EXCEPT ![i] = "errored"]
        /\ Continue
        /\ UNCHANGED <<processed_count, under_age_count, mutamer_ids,
                       should_stop_processing, signals>>

\* variant: a call that timed out is issued once more
JobRaises_RetriesTimeout(c, e) ==
    LET x == ApiProcessingError(e) IN
    IF e.msg = MsgTimeout /\ c.calls # <<>>
       /\ Cardinality({k \in 1..Len(c.calls) :
                          c.calls[k] = c.calls[Len(c.calls)]}) < 2
    THEN /\ cur' = c
         /\ pc' = pc
         /\ UNCHANGED <<i, counters, mutamer_ids, loc, outcome,
                        should_stop_processing, signals>>
    ELSE IF IsAuthFailure(x) THEN AuthHalt(c) ELSE ErrorOut(c, x)

\* an exception leaves process_passport_api and reaches the loop
JobRaises(c, e) ==
    LET x == ApiProcessingError(e) IN
    IF IsAuthFailure(x) THEN AuthHalt(c) ELSE ErrorOut(c, x)

\* process_passport_api returned: record the id, move, progress, count
JobReturns(c, mutamer_id) ==
    \E moved \in BOOLEAN :
        /\ cur' = [Ended(c) EXCEPT !.moved_name =
                      IF moved THEN ProcessedName(PathOf(i)) ELSE <<>>]
        /\ mutamer_ids' = IF mutamer_id # NoId
                          THEN Append(mutamer_ids, mutamer_id)
                          ELSE mutamer_ids
        /\ loc' = IF moved THEN [loc EXCEPT ![FileOf(i)] = "processed"] ELSE loc
        /\ signals' = Append(signals, Sig("progress", <<Progress(i)>>))
        /\ processed_count' = processed_count + 1
        /\ outcome' = [outcome EXCEPT ![i] = "enrolled"]
        /\ Continue
        /\ UNCHANGED <<error_count, under_age_count, should_stop_processing>>

\* the job goes on to its next step
JobGoes(c, next) ==
    /\ cur' = c
    /\ pc' = next
    /\ UNCHANGED <<i, counters, mutamer_ids, loc, outcome,
                   should_stop_processing, signals>>

\* bookkeeping of a call of step for response r with wrapper result t: the
\* call is appended, and got401 / failed say how this latest call went
Issued(step, r, t) ==
    [cur EXCEPT !.calls = Append(@, step),
                !.got401 = IF r.k = "status" /\ r.code = 401 THEN step ELSE "",
                !.failed = IF t.raised /\ ~(r.k = "status" /\ r.code = 401)
                           THEN step ELSE ""]

\* a step that raised before its request was sent: no call is recorded
NotIssued(step) == [cur EXCEPT !.got401 = "", !.failed = step]

\* ------------------------------------------------------------------------
\* The job loop of run()
\* ------------------------------------------------------------------------
\* head of the for loop and the stop-flag test of the iteration
LoopHead ==
    /\ pc = "loop"
    /\ IF i > NumJobs \/ should_stop_processing
       THEN /\ pc' = "group"
            /\ cur' = CurInit(0, FALSE, counters)
       ELSE /\ pc' = "extract"
            /\ \E mapped \in BOOLEAN : cur' = CurInit(i, mapped, counters)
    /\ UNCHANGED <<fn, gui, config, i, should_stop_processing, counters, mutamer_ids,
                   loc, outcome, called, groupv, signals>>

\* variant: only None is taken for a failed extraction
OcrFalsy_NoneOnly(ocr) == ocr.kind = "none"

\* not passport_data
OcrFalsy(ocr) == ocr.kind # "fields"

\* extract_passport_data, the age check and clean_passport_data
Extract ==
    /\ pc = "extract"
    /\ \E ocr \in IF loc[FileOf(i)] = "input" THEN OcrResults ELSE {OcrNone},
          today \in Todays :
       \E mv \in IF calculate_age(ocr.date_of_birth, today).val < 0
                  THEN MoveOutcomes ELSE {"moved"} :
        LET age == calculate_age(ocr.date_of_birth, today)
            c == [cur EXCEPT !.ocr_kind = ocr.kind,
                             !.negative_age = age.ok /\ age.val < 0]
            under_age == under_age_gate(ocr.date_of_birth, today)
        IN
        IF OcrFalsy(ocr)
        THEN \* if not passport_data: continue
             /\ cur' = [cur EXCEPT !.ocr_kind = ocr.kind]
             /\ outcome' = [outcome EXCEPT ![i] = "soft"]
             /\ Continue
             /\ UNCHANGED <<counters, loc, signals>>
        ELSE IF under_age /\ mv = "moved"
        THEN \* move_under_age_file returned True
             /\ cur' = AfterMove(c, mv, "under_age", UnderAgeName(PathOf(i)))
             /\ loc' = [loc EXCEPT ![FileOf(i)] = "under_age"]
             /\ under_age_count' = under_age_count + 1
             /\ signals' = Append(signals, Sig("progress", <<Progress(i)>>))
             /\ outcome' = [outcome EXCEPT ![i] = "under_age"]
             /\ Continue
             /\ UNCHANGED <<processed_count, error_count>>
        ELSE \* on to process_passport_api, also after a move that failed
             /\ cur' = IF under_age
                       THEN AfterMove(c, mv, "under_age", UnderAgeName(PathOf(i)))
                       ELSE c
             /\ pc' = "scan"
             /\ UNCHANGED <<i, counters, loc, outcome, signals>>
    /\ UNCHANGED <<fn, gui, config, should_stop_processing, mutamer_ids, called,
                   groupv>>

\* Step 1: scan_passport_api
ScanPassport ==
    /\ pc = "scan"
    /\ \E r \in Responses :
        LET exists == loc[FileOf(i)] = "input"
            t == scan_passport_api(exists, PathOf(i), r)
            c0 == IF exists THEN Issued("scanPassport", r, t)
                  ELSE NotIssued("scanPassport")
            \* age is not read again once process_passport_api has begun
            c == [c0 EXCEPT !.negative_age = FALSE]
        IN
        /\ called' = IF exists THEN called \cup {i} ELSE called
        /\ IF t.raised THEN JobRaises(c, t.exc)
           ELSE IF t.val = "empty"
           THEN \* if not scanned_data: return None
                JobReturns(c, NoId)
           ELSE JobGoes([c EXCEPT !.scanned = t.val], "submit")
    /\ UNCHANGED <<fn, gui, config, groupv>>

\* Step 2: submit_initial_info_api and the read of the new id
SubmitIdentity ==
    /\ pc = "submit"
    /\ \E r \in Responses :
       \E id \in IF r.k = "ok" /\ r.json = "full" THEN {NoId, 100 + i} ELSE {NoId} :
        LET sent == cur.scanned = "full"
            t == submit_initial_info_api(cur.scanned, r)
            c == IF sent THEN Issued("submitIdentity", r, t)
                 ELSE NotIssued("submitIdentity")
        IN
        /\ called' = IF sent THEN called \cup {i} ELSE called
        /\ IF t.raised THEN JobRaises(c, t.exc)
           ELSE IF t.val # "full"
           THEN \* initial_response["response"]["data"]["id"] raises KeyError
                JobRaises([c EXCEPT !.failed = "submitIdentity"],
                          Exc("KeyError", 0, <<"response">>))
           ELSE JobGoes([c EXCEPT !.mutamer_id = id],
                        IF cur.mapped THEN "list" ELSE "upload2")
    /\ UNCHANGED <<fn, gui, config, groupv>>

\* a drawn passport number with its letter case folded: tells a list that
\* holds the mapped number in another case from one that does not hold it
UpperNumber(pn) == IF pn = "ab123" THEN "AB123" ELSE pn

\* what a companion list holds for a number: an entry with exactly that
\* number, one that differs in letter case only, or none
Listed(companions, number) ==
    IF \E k \in 1..Len(companions) : companions[k].passportNumber = number
    THEN "exact"
    ELSE IF \E k \in 1..Len(companions) :
               UpperNumber(companions[k].passportNumber) = UpperNumber(number)
    THEN "case"
    ELSE "none"

\* variant: the passport numbers are compared without regard to letter case
RECURSIVE MatchCompanion_IgnoresCase(_, _)
MatchCompanion_IgnoresCase(companions, number) ==
    IF companions = <<>> THEN Companion("", NoId, 0)
    ELSE IF UpperNumber(Head(companions).passportNumber) = UpperNumber(number)
    THEN Head(companions)
    ELSE MatchCompanion_IgnoresCase(Tail(companions), number)

\* the first listed companion whose passportNumber equals the mapped one
RECURSIVE MatchCompanion(_, _)
MatchCompanion(companions, number) ==
    IF companions = <<>> THEN Companion("", NoId, 0)
    ELSE IF Head(companions).passportNumber = number THEN Head(companions)
    ELSE MatchCompanion(Tail(companions), number)

\* find_companion_id_by_passport: every exception of the lookup, a 401
\* included, is logged and turned into (None, None)
find_companion_id_by_passport(t, companions, number) ==
    IF t.raised THEN Companion("", NoId, 0)
    ELSE IF t.val # "full" THEN Companion("", NoId, 0)
    ELSE MatchCompanion(companions, number)

\* Step 3: companion lookup, only for a file with a mapping entry
ListCompanions ==
    /\ pc = "list"
    /\ \E r \in Responses :
       \E companions \in IF r.k = "ok" /\ r.json = "full"
                          THEN CompanionLists ELSE {<<>>} :
        LET t == get_mutamer_companions(r)
            m == find_companion_id_by_passport(t, companions, MappedNumber)
            c == Issued("listCompanions", r, t)
        IN
        /\ called' = called \cup {i}
        /\ JobGoes([c EXCEPT !.companion_id = m.id,
                             !.companion_gender = m.gender,
                             !.listed = Listed(companions, MappedNumber)],
                   "upload2")
    /\ UNCHANGED <<fn, gui, config, groupv>>

\* Step 4a: the residency document, type code 2
UploadIqama ==
    /\ pc = "upload2"
    /\ \E r \in Responses :
       \E iqama_exists \in IF use_separate_iqama THEN BOOLEAN ELSE {TRUE} :
        LET separate == use_separate_iqama /\ iqama_image_path # NoPath
            exists == IF separate THEN iqama_exists ELSE loc[FileOf(i)] = "input"
            path == IF separate THEN iqama_image_path ELSE PathOf(i)
            t == upload_attachment_api(exists, path, r)
            c == IF exists THEN Issued("uploadAttachment2", r, t)
                 ELSE NotIssued("uploadAttachment2")
        IN
        /\ called' = IF exists THEN called \cup {i} ELSE called
        /\ IF t.raised THEN JobRaises(c, t.exc) ELSE JobGoes(c, "upload3")
    /\ UNCHANGED <<fn, gui, config, groupv>>

\* Step 4b: the vaccine certificate, type code 3, always the passport image
UploadVaccine ==
    /\ pc = "upload3"
    /\ \E r \in Responses :
        LET exists == loc[FileOf(i)] = "input"
            t == upload_attachment_api(exists, PathOf(i), r)
            c == IF exists THEN Issued("uploadAttachment3", r, t)
                 ELSE NotIssued("uploadAttachment3")
        IN
        /\ called' = IF exists THEN called \cup {i} ELSE called
        /\ IF t.raised THEN JobRaises(c, t.exc) ELSE JobGoes(c, "contact")
    /\ UNCHANGED <<fn, gui, config, groupv>>

\* variant: an unknown gender is taken for a female companion
relative_relation_id_FemaleDefault(companion_gender) ==
    IF companion_gender = 1 THEN "1" ELSE "2"

\* payload["relativeRelationId"]
relative_relation_id(companion_gender) ==
    IF companion_gender = 1 THEN "1"
    ELSE IF companion_gender = 2 THEN "2"
    ELSE "1"

\* the companion part of the payload of submit_full_info_api
CompanionFields(companion_id, companion_gender) ==
    IF companion_id # NoId
    THEN <<companion_id, relative_relation_id(companion_gender)>>
    ELSE <<>>

\* Step 5: submit_full_info_api
SubmitContactInfo ==
    /\ pc = "contact"
    /\ \E r \in Responses :
        LET t == submit_full_info_api(r)
            c == [Issued("submitContactInfo", r, t) EXCEPT
                     !.companion_fields =
                        CompanionFields(cur.companion_id, cur.companion_gender)]
        IN
        /\ called' = called \cup {i}
        /\ IF t.raised THEN JobRaises(c, t.exc) ELSE JobGoes(c, "disclosure")
    /\ UNCHANGED <<fn, gui, config, groupv>>

\* Step 6: submit_disclosure_api, then the return to the loop
SubmitDisclosure ==
    /\ pc = "disclosure"
    /\ \E r \in Responses :
        LET t == submit_disclosure_api(r)
            c == Issued("submitDisclosure", r, t)
        IN
        /\ called' = called \cup {i}
        /\ IF t.raised THEN JobRaises(c, t.exc)
           ELSE JobReturns(c, cur.mutamer_id)
    /\ UNCHANGED <<fn, gui, config, groupv>>

\* ------------------------------------------------------------------------
\* After the loop: group formation, summary, completion
\* ------------------------------------------------------------------------
\* variant: the id list is not looked at
GroupRequested_Always == create_group

\* variant: no group formation after a halt
GroupRequested_NotHalted ==
    create_group /\ mutamer_ids # <<>> /\ ~should_stop_processing

GroupRequested == create_group /\ mutamer_ids # <<>>

\* if self.create_group and self.mutamer_ids: false
SkipGroup ==
    /\ pc = "group"
    /\ ~GroupRequested
    /\ pc' = "summary"
    /\ UNCHANGED <<fn, gui, config, i, cur, should_stop_processing, counters,
                   mutamer_ids, loc, outcome, called, groupv, signals>>

\* variant: a failed group creation turns the enrolled jobs into errors
CreateGroup_MarksErrored ==
    /\ pc = "group"
    /\ GroupRequested
    /\ \E r \in Responses :
       \E id \in IF r.k = "ok" /\ r.json = "full" THEN {NoId, 900} ELSE {NoId} :
        LET t == Transport(<<>>, r) IN
        /\ group_calls' = Append(group_calls, <<"createGroup">>)
        /\ IF t.raised
           THEN /\ signals' = IF t.exc.type = "HTTPError" /\ t.exc.status = 401
                              THEN Append(signals, Sig("error", <<401, 1>>))
                              ELSE signals
                /\ group_id' = group_id
                /\ processed_count' = 0
                /\ error_count' = error_count + processed_count
                /\ pc' = "summary"
           ELSE /\ signals' = signals
                /\ group_id' = IF t.val = "full" THEN id ELSE NoId
                /\ UNCHANGED <<processed_count, error_count>>
                /\ pc' = IF group_id' # NoId THEN "assign" ELSE "summary"
    /\ UNCHANGED <<fn, gui, config, i, cur, should_stop_processing, under_age_count,
                   mutamer_ids, loc, outcome, called>>

\* variant: the check "if not group_id: return" is missing
CreateGroup_AssignsAnyway ==
    /\ pc = "group"
    /\ GroupRequested
    /\ \E r \in Responses :
       \E id \in IF r.k = "ok" /\ r.json = "full" THEN {NoId, 900} ELSE {NoId} :
        LET t == Transport(<<>>, r) IN
        /\ group_calls' = Append(group_calls, <<"createGroup">>)
        /\ IF t.raised
           THEN /\ signals' = IF t.exc.type = "HTTPError" /\ t.exc.status = 401
                              THEN Append(signals, Sig("error", <<401, 1>>))
                              ELSE signals
                /\ group_id' = group_id
                /\ pc' = "summary"
           ELSE /\ signals' = signals
                /\ group_id' = IF t.val = "full" THEN id ELSE NoId
                /\ pc' = "assign"
    /\ UNCHANGED <<fn, gui, config, i, cur, should_stop_processing, counters,
                   mutamer_ids, loc, outcome, called>>

\* create_group_api up to the call of assign_mutamers_to_group
CreateGroup ==
    /\ pc = "group"
    /\ GroupRequested
    /\ \E r \in Responses :
       \E id \in IF r.k = "ok" /\ r.json = "full" THEN {NoId, 900} ELSE {NoId} :
        LET t == Transport(<<>>, r) IN
        /\ group_calls' = Append(group_calls, <<"createGroup">>)
        /\ IF t.raised
           THEN /\ signals' = IF t.exc.type = "HTTPError" /\ t.exc.status = 401
                              THEN Append(signals, Sig("error", <<401, 1>>))
                              ELSE signals
                /\ group_id' = group_id
                /\ pc' = "summary"
           ELSE /\ signals' = signals
                /\ group_id' = IF t.val = "full" THEN id ELSE NoId
                /\ pc' = IF group_id' # NoId THEN "assign" ELSE "summary"
    /\ UNCHANGED <<fn, gui, config, i, cur, should_stop_processing, counters,
                   mutamer_ids, loc, outcome, called>>

\* assign_mutamers_to_group
AssignMutamers ==
    /\ pc = "assign"
    /\ \E r \in Responses :
        LET t == Transport(<<>>, r) IN
        /\ group_calls' = Append(group_calls, <<"assignToGroup">> \o mutamer_ids)
        /\ signals' = IF t.raised /\ t.exc.type = "HTTPError" /\ t.exc.status = 401
                      THEN Append(signals, Sig("error", <<401, 2>>))
                      ELSE signals
        /\ pc' = "summary"
    /\ UNCHANGED <<fn, gui, config, i, cur, should_stop_processing, counters,
                   mutamer_ids, loc, outcome, called, group_id>>

\* the PROCESSING SUMMARY lines
Summary ==
    /\ pc = "summary"
    /\ signals' = Append(signals,
                         Sig("summary", <<processed_count, under_age_count,
                                          error_count>>))
    /\ pc' = "finally"
    /\ UNCHANGED <<fn, gui, config, i, cur, should_stop_processing, counters,
                   mutamer_ids, loc, outcome, called, groupv>>

\* finally: self.finished_signal.emit()
Finished ==
    /\ pc = "finally"
    /\ signals' = Append(signals, Sig("finished", <<>>))
    /\ pc' = "done"
    /\ UNCHANGED <<fn, gui, config, i, cur, should_stop_processing, counters,
                   mutamer_ids, loc, outcome, called, groupv>>

Next ==
    \/ LoopHead
    \/ Extract
    \/ ScanPassport
    \/ SubmitIdentity
    \/ ListCompanions
    \/ UploadIqama
    \/ UploadVaccine
    \/ SubmitContactInfo
    \/ SubmitDisclosure
    \/ SkipGroup
    \/ CreateGroup
    \/ AssignMutamers
    \/ Summary
    \/ Finished

Spec == Init /\ [][Next]_vars

\* input lists in which a path is given more than once (upload_passports
\* extends the list with whatever the file dialog returns)
DuplicateLists ==
    {f \in [Jobs -> Jobs] :
        /\ \A j \in Jobs : f[j] <= j /\ f[f[j]] = f[j]
        /\ \E j \in Jobs : f[j] # j}

\* the batch run on a list with a repeated path
DupInit ==
    /\ passport_files \in DuplicateLists
    /\ create_group \in BOOLEAN
    /\ iqama_image_path \in {NoPath} \cup IqamaPaths
    /\ pc = "loop"
    /\ i = 1
    /\ cur = CurInit(0, FALSE, <<0, 0, 0>>)
    /\ should_stop_processing = FALSE
    /\ processed_count = 0
    /\ error_count = 0
    /\ under_age_count = 0
    /\ mutamer_ids = <<>>
    /\ loc = [j \in Jobs |-> "input"]
    /\ outcome = [j \in Jobs |-> "pending"]
    /\ called = {}
    /\ group_calls = <<>>
    /\ group_id = NoId
    /\ signals = <<>>
    /\ gui = GuiStarted
    /\ fn = NoCall

DupSpec == DupInit /\ [][Next]_vars

\* ------------------------------------------------------------------------
\* The window beside the worker thread
\* ------------------------------------------------------------------------
\* the notifications whose slots touch the start button, in the order the
\* event loop of the window delivers them (log_message and setValue leave
\* the button alone)
ButtonSignals ==
    SelectSeq(signals, LAMBDA s : s.sig \in {"error", "finished"})

\* the worker thread is inside run()
WorkerRunning == pc # "done"

\* "Authorization failed" in error_message or "401" in error_message
IsAuthorizationError(s) == s.val # <<>> /\ s.val[1] = 401

workerv == <<config, pc, i, cur, should_stop_processing, counters,
             mutamer_ids, loc, outcome, called, groupv, signals>>

\* show_error as the slot of error_signal; the question box is answered
\* before the action ends
ShowError ==
    /\ gui.handled < Len(ButtonSignals)
    /\ LET s == ButtonSignals[gui.handled + 1] IN
        /\ s.sig = "error"
        /\ gui' = [gui EXCEPT !.handled = @ + 1,
                              !.start_btn = IF IsAuthorizationError(s)
                                            THEN TRUE ELSE @]
    /\ UNCHANGED <<fn, workerv>>

\* processing_finished as the slot of finished_signal
ProcessingFinished ==
    /\ gui.handled < Len(ButtonSignals)
    /\ ButtonSignals[gui.handled + 1].sig = "finished"
    /\ gui' = [gui EXCEPT !.handled = @ + 1, !.start_btn = TRUE]
    /\ UNCHANGED <<fn, workerv>>

\* a click on the enabled start button with the form still filled in:
\* start_processing disables the button and starts a new PassportProcessor
StartProcessingAgain ==
    /\ gui.start_btn
    /\ ~gui.restarted
    /\ gui' = [gui EXCEPT !.start_btn = FALSE,
                          !.restarted = TRUE,
                          !.overlap = WorkerRunning]
    /\ UNCHANGED <<fn, workerv>>

GuiNext ==
    \/ Next
    \/ ShowError
    \/ ProcessingFinished
    \/ StartProcessingAgain

GuiSpec == Init /\ [][GuiNext]_vars

\* the worker thread is scheduled and every remote call returns or times out
FairSpec == Spec /\ WF_vars(Next)

TypeOK ==
    /\ pc \in {"loop", "extract", "scan", "submit", "list", "upload2",
               "upload3", "contact", "disclosure", "group", "assign",
               "summary", "finally", "done"}
    /\ i \in 1..(NumJobs + 1)
    /\ processed_count \in 0..NumJobs
    /\ error_count \in 0..NumJobs
    /\ under_age_count \in 0..NumJobs
    /\ Len(mutamer_ids) <= NumJobs

\* ------------------------------------------------------------------------
\* The normalisation functions applied to inputs of bounded size
\* ------------------------------------------------------------------------
\* longest field value drawn
MaxLen == 5

\* characters the field values are built from: letters in both cases, a
\* blank, a special one
NameChars == {"n", "u", "l", "N", " ", "-"}

\* values around the word none
NoneValues ==
    {<<"n", "o", "n", "e">>, <<"N", "o", "n", "e">>, <<"N", "O", "N", "E">>,
     <<" ", "n", "o", "n", "e">>, <<"n", "o", "n", "e", " ">>,
     <<"-", "n", "o", "n", "e">>, <<"n", "o", "-", "n", "e">>,
     <<"n", "o", " ", "n", "e">>, <<"n", "o", "n", "e", "-">>,
     <<"n", "o", "n", "e", "s">>, <<"n", "o", "n">>}

FieldValues ==
    {PyNone} \cup NoneValues
    \cup UNION {[1..k -> NameChars] : k \in 0..MaxLen}

AlRashid == <<"A", "l", " ", "R", "a", "s", "h", "i", "d">>
Hassan == <<"H", "a", "s", "s", "a", "n">>
Khan == <<"K", "h", "a", "n">>

\* names as the OCR returns them, before clean_passport_data
OcrNames == {PyNone, <<>>, <<" ">>, <<"-">>}

PersonalData ==
    [last_name : OcrNames \cup {Khan, <<"O", "-", "N">>},
     married : BOOLEAN,
     husband_name : OcrNames \cup {AlRashid},
     father_name : OcrNames \cup {Hassan}]

Sexes == {"M", "F", "m", "X", ""}

AgeTodays ==
    {Date(y, m, d) : y \in {2023, 2024}, m \in {1, 5, 6, 12},
                     d \in {1, 14, 15, 16, 31}}
    \cap {t \in [y : {2023, 2024}, m : 1..12, d : 1..31] :
             ValidDate(t.y, t.m, t.d)}

AgeBirthDates ==
    BirthDates \cup {DateStr("-", 2000, 2, 29), DateStr("-", 1990, 12, 31),
                     DateStr("-", 2023, 6, 1)}

\* ------------------------------------------------------------------------
\* The OCR key chosen in __init__
\* ------------------------------------------------------------------------
\* config.GENAI_API_KEY
FallbackKey == <<"GENAI_API_KEY">>

KeyChars == {"0", "k", " "}

\* the api_key cell of the user record: None, an int (v is its str()), a str
NoKey == [t |-> "none", v |-> <<>>]
ApiKeyValues ==
    {NoKey, [t |-> "int", v |-> <<"0">>], [t |-> "int", v |-> <<"7">>]}
    \cup {[t |-> "str", v |-> x] :
             x \in UNION {[1..k -> KeyChars] : k \in 0..MaxLen}}

\* user_data: None or {} (user FALSE), a dict without the key, one with it
UserRecords ==
    {[user |-> FALSE, has_key |-> FALSE, api_key |-> NoKey],
     [user |-> TRUE, has_key |-> FALSE, api_key |-> NoKey]}
    \cup {[user |-> TRUE, has_key |-> TRUE, api_key |-> v] :
             v \in ApiKeyValues}

\* truth value of a Python None, int or str
PyTruthy(x) ==
    CASE x.t = "none" -> FALSE
      [] x.t = "int" -> x.v # <<"0">>
      [] OTHER -> x.v # <<>>

\* self.user_data.get('api_key') if self.user_data else None
user_api_key(user_data) ==
    IF user_data.user /\ user_data.has_key THEN user_data.api_key ELSE NoKey

\* variant: the key "0" is taken for a key
configured_api_key_ZeroAllowed(user_data) ==
    LET k == user_api_key(user_data) IN
    IF PyTruthy(k) /\ Strip(k.v) # <<>> THEN Strip(k.v) ELSE FallbackKey

\* the key genai.configure is called with
configured_api_key(user_data) ==
    LET k == user_api_key(user_data) IN
    IF PyTruthy(k)
    THEN LET user_api_key_str == Strip(k.v) IN
         IF user_api_key_str # <<>> /\ user_api_key_str # <<"0">>
         THEN user_api_key_str
         ELSE FallbackKey
    ELSE FallbackKey

\* ------------------------------------------------------------------------
\* The residency number of the contact payload
\* ------------------------------------------------------------------------
DigitChars == {"0", "1", "2", "3", "4", "5", "6", "7", "8", "9"}

\* \d
IsDigit(c) == c \in DigitChars

SetMax(S) == CHOOSE x \in S : \A y \in S : y <= x
SetMin(S) == CHOOSE x \in S : \A y \in S : x <= y

PassportChars == {"A", "1", "2"}

\* passport_number as the OCR returns it
PassportNumbers == UNION {[1..k -> PassportChars] : k \in 0..MaxLen}

\* custom_iqama_number as start_processing passes it: None when the box is
\* not ticked, else the stripped text
CustomNumbers == {PyNone, <<>>, <<"7", "7">>}

\* (\d+) tried from position p: the greedy run of digits
RunEnd(s, p) ==
    SetMax({e \in p..Len(s) : \A k \in p..e : IsDigit(s[k])})

\* .*\d right after position e: a digit further on in the same line
DigitFollows(s, e) ==
    \E k \in (e + 1)..Len(s) :
        /\ IsDigit(s[k])
        /\ \A m \in (e + 1)..(k - 1) : s[m] # "\n"

\* variant: the pattern (\d+)$, the digits the string ends with
re_search_digits_AtEnd(s) ==
    LET starts == {p \in 1..(Len(s) + 1) : \A k \in p..Len(s) : IsDigit(s[k])}
    IN SubSeq(s, SetMin(starts), Len(s))

\* re.search(r'(\d+)(?!.*\d)', s): group(1) of the leftmost match, "" for
\* no match
re_search_digits(s) ==
    LET starts == {p \in 1..Len(s) :
                      IsDigit(s[p]) /\ ~DigitFollows(s, RunEnd(s, p))}
    IN IF starts = {} THEN <<>>
       ELSE SubSeq(s, SetMin(starts), RunEnd(s, SetMin(starts)))

\* iqama_number of submit_full_info_api
iqama_number(separate_iqama, custom_iqama_number, passport_number) ==
    IF separate_iqama /\ Truthy(custom_iqama_number)
    THEN Strip(custom_iqama_number)
    ELSE re_search_digits(passport_number)

\* ------------------------------------------------------------------------
\* The name fields on their way into the contact payload
\* ------------------------------------------------------------------------
\* values the OCR gives a name field
OcrFieldValues ==
    {PyNone, <<>>, Khan, <<"O", "-", "N">>, <<"n", "u", "l", "l">>}

\* the OCR dict: any of the name fields may be missing
OcrDicts == UNION {[S -> OcrFieldValues] : S \in SUBSET name_fields}

\* dict.get(key)
Get(d, key) == IF key \in DOMAIN d THEN d[key] ELSE PyNone

\* firstName.en of the payload of submit_full_info_api
first_name_en(personal_data) == Get(personal_data, "first_name")

\* ------------------------------------------------------------------------
\* The shared headers and the wrappers' copies
\* ------------------------------------------------------------------------
\* most calls made on one processor
MaxCalls == 3

EmptyDict == [x \in {} |-> ""]

FullToken(b, e, c) ==
    [bearer_token |-> b, entity_id |-> e, active_entity_id |-> "a1",
     active_entity_type_id |-> "t1", contract_id |-> c]

\* token_data as the browser capture leaves it
TokenBundles ==
    {EmptyDict,
     [entity_id |-> "e1", contract_id |-> "c1"],
     [bearer_token |-> "Bearer A"],
     FullToken("", "e1", "c1"),
     FullToken("Bearer A", "e1", "c1"),
     FullToken("Bearer B", "e2", "c2")}

\* token_data.get(key, default), None as the text "None"
TokenGet(token_data, key, default) ==
    IF key \in DOMAIN token_data THEN token_data[key] ELSE default

\* self.headers of __init__: the fields taken from the token and one of the
\* fixed ones
headers_of(token_data) ==
    [Host |-> "masar.nusuk.sa",
     EntityId |-> TokenGet(token_data, "entity_id", "None"),
     Authorization |-> TokenGet(token_data, "bearer_token", ""),
     activeentityid |-> TokenGet(token_data, "active_entity_id", "None"),
     activeentitytypeid |->
         TokenGet(token_data, "active_entity_type_id", "None"),
     contractId |-> TokenGet(token_data, "contract_id", "None")]

AddMutamerReferer == "umrah/mutamer/add-mutamer"
CreateGroupReferer == "umrah/mutamer-group/add-group/create-group"

\* the keys each wrapper sets on its headers
Wrappers ==
    [scan_passport_api |-> [Referer |-> AddMutamerReferer],
     submit_initial_info_api |-> [ContentType |-> "application/json"],
     upload_attachment_api |-> [Referer |-> AddMutamerReferer],
     submit_full_info_api |-> [ContentType |-> "application/json"],
     submit_disclosure_api |-> [ContentType |-> "application/json"],
     get_mutamer_companions |-> [ContentType |-> "application/json"],
     create_group_api |-> [ContentType |-> "application/json",
                           Referer |-> CreateGroupReferer],
     assign_mutamers_to_group |-> [ContentType |-> "application/json",
                                   Referer |-> CreateGroupReferer]]

\* headers[key] = value for every key of added
SetKeys(headers, added) ==
    [k \in DOMAIN headers \cup DOMAIN added |->
        IF k \in DOMAIN added THEN added[k] ELSE headers[k]]

\* variant: the wrapper writes into self.headers itself
headers_after_call_Aliased(headers, request) == request

\* self.headers after a wrapper wrote into its copy, self.headers.copy()
headers_after_call(headers, request) == headers

\* ------------------------------------------------------------------------
\* The checks of start_processing
\* ------------------------------------------------------------------------
Rep(n, c) == [k \in 1..n |-> c]

\* the length validate_phone asks for
PhoneDigits == 10

PhoneTexts ==
    {<<>>, Rep(PhoneDigits - 1, "5"), Rep(PhoneDigits, "5"),
     Rep(PhoneDigits + 1, "5"),
     Rep(3, "5") \o <<"-">> \o Rep(3, "5") \o <<"-">> \o Rep(4, "5"),
     Rep(PhoneDigits, "x")}

EmailTexts == {<<>>, <<" ">>, <<"a", "@", "b">>}
IqamaNumberTexts == {<<>>, <<" ">>, <<"7", "7">>}
GroupNameTexts == {<<>>, <<" ">>, <<"G">>}

\* the companion box and the dialog: box not ticked or ticked with mappings
\* set (no dialog); ticked without, and the answer given: Yes with the
\* mapping dialog then left empty, No, Cancel
CompanionChoices == {"no_dialog", "yes_unset", "no", "cancel"}

StartInputs ==
    [passport_files : {<<>>, <<PathOf(1)>>},
     email : EmailTexts,
     phone : PhoneTexts,
     iqama_checked : BOOLEAN,
     iqama_image_path : {NoPath} \cup IqamaPaths,
     iqama_number : IqamaNumberTexts,
     group_checked : BOOLEAN,
     group_name : GroupNameTexts,
     companion : CompanionChoices,
     token_data : {EmptyDict, [entity_id |-> "e1", contract_id |-> "c1"],
                   FullToken("", "e1", "c1"),
                   FullToken("Bearer A", "e1", "c1")}]

\* variant: any text with ten digits or more passes
validate_phone_AtLeast(text) == Len(SelectSeq(text, IsDigit)) >= PhoneDigits

\* validate_phone: ten digits once every other character is removed
validate_phone(text) == Len(SelectSeq(text, IsDigit)) = PhoneDigits

Rejected(warning) == [started |-> FALSE, warning |-> warning]

\* start_processing: the first check that fails returns; else the thread is
\* started
start_processing(inputs) ==
    IF inputs.passport_files = <<>> THEN Rejected("passport image")
    ELSE IF Strip(inputs.email) = <<>> THEN Rejected("email")
    ELSE IF ~validate_phone(inputs.phone) THEN Rejected("phone")
    ELSE IF inputs.iqama_checked /\ inputs.iqama_image_path = NoPath
    THEN Rejected("iqama image")
    ELSE IF inputs.iqama_checked /\ Strip(inputs.iqama_number) = <<>>
    THEN Rejected("iqama number")
    ELSE IF inputs.group_checked /\ Strip(inputs.group_name) = <<>>
    THEN Rejected("group name")
    ELSE IF inputs.companion \in {"yes_unset", "cancel"} THEN Rejected("")
    ELSE IF inputs.token_data = EmptyDict
            \/ TokenGet(inputs.token_data, "bearer_token", "") = ""
    THEN Rejected("login")
    ELSE [started |-> TRUE, warning |-> ""]

\* ------------------------------------------------------------------------
\* The authorization directory: AuthManager.verify_user behind AuthWorker.run
\* ------------------------------------------------------------------------
\* most rows of the sheet
MaxRecords == 2

DirectoryEmails == {<<"a">>, <<"A">>, <<"b">>}

\* the status cell as str() shows it
StatusCells == {<<"1">>, <<"0">>, <<" ", "1">>}

\* one row of get_all_records()
DirectoryRecords ==
    [email : DirectoryEmails, status : StatusCells, api_key : {<<"k">>}]

Directories == UNION {[1..k -> DirectoryRecords] : k \in 0..MaxRecords}

\* the sheet: not opened, opened with get_all_records raising, or readable
SheetStates == {"none", "raises", "open"}

AuthResult(is_authorized, message, user_data) ==
    [is_authorized |-> is_authorized, message |-> message,
     user_data |-> user_data]

Deactivated == "Your account is deactivated"
NotFound == "Email not found in authorized users list"

\* variant: the emails are compared as written
RECURSIVE find_user_CaseSensitive(_, _)
find_user_CaseSensitive(records, email) ==
    IF records = <<>> THEN AuthResult(FALSE, NotFound, EmptyDict)
    ELSE LET record == Head(records) IN
         IF record.email = email
         THEN IF Strip(record.status) = <<"1">>
              THEN AuthResult(TRUE, "",
                              [email |-> record.email,
                               api_key |-> record.api_key,
                               status |-> Strip(record.status)])
              ELSE AuthResult(FALSE, Deactivated, EmptyDict)
         ELSE find_user_CaseSensitive(Tail(records), email)

\* for record in records: the first row with the email decides
RECURSIVE find_user(_, _)
find_user(records, email) ==
    IF records = <<>> THEN AuthResult(FALSE, NotFound, EmptyDict)
    ELSE LET record == Head(records) IN
         IF Lower(record.email) = Lower(email)
         THEN IF Strip(record.status) = <<"1">>
              THEN AuthResult(TRUE, "",
                              [email |-> record.email,
                               api_key |-> record.api_key,
                               status |-> Strip(record.status)])
              ELSE AuthResult(FALSE, Deactivated, EmptyDict)
         ELSE find_user(Tail(records), email)

\* verify_user as AuthWorker.run passes it on: (False, message, {}) for a
\* denial, (True, "Authentication successful!", record) otherwise
verify_user(sheet, records, email) ==
    IF sheet = "none"
    THEN AuthResult(FALSE, "Failed to connect to Google Sheets", EmptyDict)
    ELSE IF sheet = "raises"
    THEN AuthResult(FALSE, "Error verifying user", EmptyDict)
    ELSE LET found == find_user(records, email) IN
         IF found.is_authorized
         THEN [found EXCEPT !.message = "Authentication successful!"]
         ELSE found

Call(op, arg) == [op |-> op, n |-> 0, arg |-> arg, res |-> arg]

NormInit ==
    /\ passport_files = [j \in Jobs |-> j]
    /\ create_group = FALSE
    /\ iqama_image_path = NoPath
    /\ pc = "loop"
    /\ i = 1
    /\ cur = CurInit(0, FALSE, <<0, 0, 0>>)
    /\ should_stop_processing = FALSE
    /\ processed_count = 0
    /\ error_count = 0
    /\ under_age_count = 0
    /\ mutamer_ids = <<>>
    /\ loc = [j \in Jobs |-> "input"]
    /\ outcome = [j \in Jobs |-> "pending"]
    /\ called = {}
    /\ group_calls = <<>>
    /\ group_id = NoId
    /\ signals = <<>>
    /\ gui = GuiStarted
    /\ \/ fn \in {Call("clean_passport_data", [first_name |-> v]) :
                  v \in FieldValues}
       \/ fn \in {Call("calculate_age", [birth_date_str |-> b, today |-> t]) :
                  b \in AgeBirthDates, t \in AgeTodays}
       \/ fn \in {Call("last_name_en", p) : p \in PersonalData}
       \/ fn \in {Call("marital_and_profession", [sex |-> x, married |-> m]) :
                  x \in Sexes, m \in BOOLEAN}
       \/ fn \in {Call("api_key", u) : u \in UserRecords}
       \/ fn \in {Call("iqama_number",
                     [use_separate_iqama |-> u, custom_iqama_number |-> c,
                      passport_number |-> p]) :
                  u \in BOOLEAN, c \in CustomNumbers, p \in PassportNumbers}
       \/ fn \in {Call("under_age_gate", [birth_date_str |-> b, today |-> t]) :
                  b \in AgeBirthDates, t \in AgeTodays}
       \/ fn \in {Call("first_name_en", d) : d \in OcrDicts}
       \/ fn \in {[op |-> "transport", n |-> 0, arg |-> t,
                 res |-> [headers |-> headers_of(t), sent |-> <<>>]] :
                  t \in TokenBundles}
       \/ fn \in {Call("start_processing", x) : x \in StartInputs}
       \/ fn \in {Call("verify_user",
                        [sheet |-> h, records |-> d, email |-> e]) :
                     h \in SheetStates, d \in Directories,
                     e \in DirectoryEmails}

runv == <<gui, config, pc, i, cur, should_stop_processing, counters, mutamer_ids,
          loc, outcome, called, groupv, signals>>

\* clean_passport_data on a dict, then once more on what it returned
CleanPassportData ==
    /\ fn.op = "clean_passport_data"
    /\ fn.n < 2
    /\ LET passport_data == IF fn.n = 0 THEN fn.arg ELSE fn.res IN
       fn' = [fn EXCEPT !.n = @ + 1,
                        !.arg = passport_data,
                        !.res = clean_passport_data(passport_data)]
    /\ UNCHANGED runv

CalculateAge ==
    /\ fn.op = "calculate_age"
    /\ fn.n = 0
    /\ fn' = [fn EXCEPT !.n = 1,
                        !.res = calculate_age(fn.arg.birth_date_str,
                                              fn.arg.today)]
    /\ UNCHANGED runv

\* run() cleans the names before process_passport_api builds the payload
FamilyName ==
    /\ fn.op = "last_name_en"
    /\ fn.n = 0
    /\ LET personal_data == clean_passport_data(fn.arg) IN
       fn' = [fn EXCEPT !.n = 1,
                        !.arg = personal_data,
                        !.res = last_name_en(personal_data)]
    /\ UNCHANGED runv

MaritalAndProfession ==
    /\ fn.op = "marital_and_profession"
    /\ fn.n = 0
    /\ fn' = [fn EXCEPT !.n = 1,
                        !.res = marital_and_profession(fn.arg.sex,
                                                       fn.arg.married)]
    /\ UNCHANGED runv

\* __init__ chooses the key of the OCR client
ConfigureApiKey ==
    /\ fn.op = "api_key"
    /\ fn.n = 0
    /\ fn' = [fn EXCEPT !.n = 1, !.res = configured_api_key(fn.arg)]
    /\ UNCHANGED runv

IqamaNumber ==
    /\ fn.op = "iqama_number"
    /\ fn.n = 0
    /\ fn' = [fn EXCEPT !.n = 1,
                        !.res = iqama_number(fn.arg.use_separate_iqama,
                                             fn.arg.custom_iqama_number,
                                             fn.arg.passport_number)]
    /\ UNCHANGED runv

\* the age check of run()
UnderAgeGate ==
    /\ fn.op = "under_age_gate"
    /\ fn.n = 0
    /\ fn' = [fn EXCEPT !.n = 1,
                        !.res = [age |-> calculate_age(fn.arg.birth_date_str,
                                                       fn.arg.today),
                                 routed |-> under_age_gate(
                                                fn.arg.birth_date_str,
                                                fn.arg.today)]]
    /\ UNCHANGED runv

\* the OCR dict is cleaned, then read by submit_full_info_api
FirstNameEn ==
    /\ fn.op = "first_name_en"
    /\ fn.n = 0
    /\ LET personal_data == clean_passport_data(fn.arg) IN
       fn' = [fn EXCEPT !.n = 1,
                        !.res = [personal_data |-> personal_data,
                                 first_name_en |->
                                     first_name_en(personal_data)]]
    /\ UNCHANGED runv

\* one call of a wrapper: it copies the shared headers, sets its keys and
\* sends the copy
TransportCall ==
    /\ fn.op = "transport"
    /\ fn.n < MaxCalls
    /\ \E w \in DOMAIN Wrappers :
        LET request == SetKeys(fn.res.headers, Wrappers[w]) IN
        fn' = [fn EXCEPT !.n = @ + 1,
                         !.res = [headers |->
                                      headers_after_call(fn.res.headers,
                                                         request),
                                  sent |-> Append(fn.res.sent, request)]]
    /\ UNCHANGED runv

StartProcessing ==
    /\ fn.op = "start_processing"
    /\ fn.n = 0
    /\ fn' = [fn EXCEPT !.n = 1, !.res = start_processing(fn.arg)]
    /\ UNCHANGED runv

VerifyUser ==
    /\ fn.op = "verify_user"
    /\ fn.n = 0
    /\ fn' = [fn EXCEPT !.n = 1,
                        !.res = verify_user(fn.arg.sheet, fn.arg.records,
                                            fn.arg.email)]
    /\ UNCHANGED runv

NormNext ==
    \/ CleanPassportData
    \/ CalculateAge
    \/ FamilyName
    \/ MaritalAndProfession
    \/ ConfigureApiKey
    \/ IqamaNumber
    \/ UnderAgeGate
    \/ FirstNameEn
    \/ TransportCall
    \/ StartProcessing
    \/ VerifyUser

NormSpec == NormInit /\ [][NormNext]_vars

\* ------------------------------------------------------------------------
\* Properties
\* ------------------------------------------------------------------------
CountOf(o, upto) == Cardinality({j \in Jobs : j < upto /\ outcome[j] = o})

HasSignal(name) == \E k \in 1..Len(signals) : signals[k].sig = name
NumSignals(name) == Cardinality({k \in 1..Len(signals) : signals[k].sig = name})

JobSteps == <<"scanPassport", "submitIdentity", "uploadAttachment2",
              "uploadAttachment3", "submitContactInfo", "submitDisclosure">>

CalledStep(step) == \E k \in 1..Len(cur.calls) : cur.calls[k] = step

\* C1: whenever a remote call of the job in flight has returned HTTP 401,
\* whichever step it was, the stop flag is set and the loop stays at that job.
C1_Any401Halts ==
    cur.got401 # "" => (should_stop_processing /\ i = cur.job)

\* C2: the stop flag is set only when a remote call of the halted job has
\* returned HTTP 401.
C2_StopOnlyOn401 ==
    should_stop_processing => cur.got401 # ""

\* C3: once the batch has halted at job k, job k's file is still in the input
\* location and job k is in no counter, no job after k has had a remote call,
\* a move or an outcome, the counters are those of the jobs before k, and
\* the summary reports exactly those counts.
C3_HaltLeavesRest ==
    should_stop_processing =>
        /\ cur.job = i
        /\ outcome[i] = "halted"
        /\ loc[i] = "input"
        /\ counters = cur.before
        /\ \A j \in Jobs : j > i =>
              (outcome[j] = "pending" /\ loc[j] = "input" /\ j \notin called)
        /\ processed_count = CountOf("enrolled", i)
        /\ under_age_count = CountOf("under_age", i)
        /\ error_count = CountOf("errored", i)
        /\ \A k \in 1..Len(signals) :
              signals[k].sig = "summary" =>
                  signals[k].val = <<CountOf("enrolled", i),
                                     CountOf("under_age", i),
                                     CountOf("errored", i)>>

\* C3 witness: three jobs, job 1 enrolled, job 2's submitIdentity answered
\* 401, the run is over and the summary says 1 enrolled, 0 under-age, 0 errors.
C3_Witness ==
    /\ NumJobs >= 3
    /\ pc = "done"
    /\ should_stop_processing
    /\ i = 2
    /\ cur.got401 = "submitIdentity"
    /\ outcome[1] = "enrolled"
    /\ loc[3] = "input" /\ 3 \notin called
    /\ \E k \in 1..Len(signals) : signals[k] = Sig("summary", <<1, 0, 0>>)

\* C4: a job one of whose remote calls failed without a 401 ends Errored:
\* error_count is one more than when the job began, the other two counters
\* are as they were, the file, once moved, is in the error folder under a
\* name containing "ERROR", and the loop has gone on to the next job.
C4_FailureErrors ==
    (cur.failed # "" /\ cur.got401 = "") =>
        /\ outcome[cur.job] = "errored"
        /\ counters = <<cur.before[1], cur.before[2] + 1, cur.before[3]>>
        /\ \/ loc[cur.job] = "error" /\ Contains(cur.moved_name, "ERROR")
           \/ loc[cur.job] = "input" /\ cur.moved_name = <<>>
        /\ ~should_stop_processing
        /\ pc = "loop" /\ i = cur.job + 1

\* C5: a job whose computed age is negative ends UnderAge, counted and moved
\* to the under-age folder, and no step issues a remote call for it.
NegativeAgeStep ==
    cur.negative_age =>
        /\ called' = called
        /\ outcome[cur.job] = "under_age"
        /\ loc[cur.job] = "under_age"
        /\ under_age_count = cur.before[3] + 1

C5_NegativeAgeNeverScanned == [][NegativeAgeStep]_vars

\* C6: a job whose OCR extraction returned None or an empty result has no
\* remote call, its file stays in the input location, no counter changes, no
\* progress is emitted for it, and the loop goes on to the next job.
C6_SoftFailure ==
    (cur.ocr_kind \in {"none", "empty"}) =>
        /\ outcome[cur.job] = "soft"
        /\ cur.calls = <<>>
        /\ cur.job \notin called
        /\ loc[cur.job] = "input"
        /\ cur.moved_name = <<>>
        /\ counters = cur.before
        /\ ~should_stop_processing
        /\ pc = "loop" /\ i = cur.job + 1

\* C6 witness: the second job's extraction returned an empty result after a
\* first job that was enrolled.
C6_Witness ==
    /\ cur.ocr_kind = "empty"
    /\ cur.job = 2
    /\ outcome[1] = "enrolled"
    /\ outcome[2] = "soft"
    /\ pc = "loop"

\* C7: a job counted as enrolled has had scanPassport, submitIdentity, both
\* uploads, submitContactInfo and submitDisclosure called (each step of a job
\* runs only after the one before it succeeded), and its id is the last of
\* mutamer_ids.
C7_EnrolledOnlyAfterAllSteps ==
    (cur.job >= 1 /\ outcome[cur.job] = "enrolled" /\ cur.job = i - 1) =>
        /\ \A k \in 1..Len(JobSteps) : CalledStep(JobSteps[k])
        /\ mutamer_ids # <<>>
        /\ mutamer_ids[Len(mutamer_ids)] = 100 + cur.job

\* C8: after the loop, with an empty id list no group call has been made.
C8_NoGroupWithoutIds ==
    (pc \in {"summary", "finally", "done"} /\ mutamer_ids = <<>>) =>
        group_calls = <<>>

\* C8 witness: group creation was requested, a job was counted as processed,
\* the id list is empty and the run is over.
C8_Witness ==
    /\ pc = "done"
    /\ create_group
    /\ mutamer_ids = <<>>
    /\ processed_count > 0
    /\ group_calls = <<>>

\* C9: a step of group formation, failed or not, leaves the three counters,
\* the id list, the file locations and the job outcomes as they were.
GroupStepLeavesJobs ==
    pc \in {"group", "assign"} =>
        /\ counters' = counters
        /\ mutamer_ids' = mutamer_ids
        /\ loc' = loc
        /\ outcome' = outcome

C9_GroupLeavesJobs == [][GroupStepLeavesJobs]_vars

\* C9 witness: createGroup answered 401 after a job had been enrolled.
C9_Witness ==
    /\ pc = "summary"
    /\ processed_count > 0
    /\ group_calls = <<<<"createGroup">>>>
    /\ signals # <<>>
    /\ signals[Len(signals)] = Sig("error", <<401, 1>>)

\* steps the worker still has to take: it decreases with every step
Rank ==
    LET pcRank == CASE pc = "loop" -> 9 [] pc = "extract" -> 8
                    [] pc = "scan" -> 7 [] pc = "submit" -> 6
                    [] pc = "list" -> 5 [] pc = "upload2" -> 4
                    [] pc = "upload3" -> 3 [] pc = "contact" -> 2
                    [] pc = "disclosure" -> 1
                    [] pc = "group" -> 4 [] pc = "assign" -> 3
                    [] pc = "summary" -> 2 [] pc = "finally" -> 1
                    [] OTHER -> 0
    IN IF pc \in {"group", "assign", "summary", "finally", "done"}
       THEN pcRank
       ELSE 10 * (NumJobs + 2 - i) + pcRank

\* C10: every step of a run brings it closer to its end; the completion
\* notification is emitted only as the run ends, and a run that has ended
\* has emitted one summary carrying the three counters followed by one
\* completion notification, which is the last notification.
C10_SummaryThenFinished ==
    /\ [](pc # "done" => ~HasSignal("finished"))
    /\ [](pc = "done" =>
            /\ Len(signals) >= 2
            /\ signals[Len(signals)] = Sig("finished", <<>>)
            /\ signals[Len(signals) - 1] =
                  Sig("summary", <<processed_count, under_age_count, error_count>>)
            /\ NumSignals("finished") = 1
            /\ NumSignals("summary") = 1)
    /\ [][Rank' < Rank]_vars

\* C10 witness: a run halted by the stop flag whose group formation was
\* answered 401 has ended.
C10_Witness ==
    /\ pc = "done"
    /\ should_stop_processing
    /\ HasSignal("summary")
    /\ \E k \in 1..Len(signals) : signals[k] = Sig("error", <<401, 1>>)

\* ------------------------------------------------------------------------
\* Order of the steps, of the jobs, and group formation (Spec)
\* ------------------------------------------------------------------------
StepOrder(mapped) ==
    IF mapped
    THEN <<"scanPassport", "submitIdentity", "listCompanions",
           "uploadAttachment2", "uploadAttachment3", "submitContactInfo",
           "submitDisclosure">>
    ELSE JobSteps

IsPrefix(a, b) == Len(a) <= Len(b) /\ a = SubSeq(b, 1, Len(a))

InFlight(p) == p \in {"scan", "submit", "list", "upload2", "upload3",
                      "contact", "disclosure"}

\* a step of the job in flight: the calls made so far are a prefix of the
\* fixed order, and a further call is made only if the call before succeeded
OrderedStep ==
    /\ InFlight(pc') => IsPrefix(cur'.calls, StepOrder(cur'.mapped))
    /\ (cur'.job = cur.job /\ cur.calls # <<>>
        /\ Len(cur'.calls) > Len(cur.calls))
           => (cur.failed = "" /\ cur.got401 = "")

\* C16: within a job the remote steps are called in the fixed order, each
\* only after every earlier step of the job has succeeded; a step that takes
\* the mutamer id comes after submitIdentity
C16_StepsInOrder == [][OrderedStep]_vars

Terminal == {"enrolled", "under_age", "errored", "soft"}

\* C17: jobs after the one of the loop are untouched (no call, no move, no
\* outcome), every job before it has a terminal outcome, and the counters
\* count terminal jobs only
C17_OneJobInFlight ==
    /\ \A j \in Jobs :
        /\ j > i => (outcome[j] = "pending" /\ loc[j] = "input"
                     /\ j \notin called)
        /\ j < i => outcome[j] \in Terminal
    /\ processed_count + error_count + under_age_count
         = Cardinality({j \in Jobs :
                           outcome[j] \in {"enrolled", "under_age", "errored"}})

C17_Witness ==
    /\ i = 2 /\ pc = "contact"
    /\ outcome[1] = "enrolled" /\ loc[1] = "processed"
    /\ 2 \in called /\ outcome[2] = "pending"
    /\ outcome[3] = "pending"

\* a file changes folder only from the input folder, only in the step that
\* gives its job its terminal outcome, and only when no disposition folder
\* holds a copy of it already
MoveStep ==
    \A j \in Jobs :
        loc'[j] # loc[j] =>
            /\ loc[j] = "input"
            /\ outcome[j] = "pending" /\ outcome'[j] \in Terminal
            /\ (cur.job = j => cur.stray = {})

\* C18: a file is moved at most once, at the terminal transition of its job,
\* and is never in two of the processed, under-age and error folders
C18_MovedOnce == [][MoveStep]_vars

NumCalls(name) ==
    Cardinality({k \in 1..Len(group_calls) : Head(group_calls[k]) = name})

\* C19: createGroup is called at most once; when the summary is due or out,
\* it has been called if group creation was requested and an id was
\* collected, whether or not the loop was halted
C19_GroupWhenRequested ==
    /\ NumCalls("createGroup") <= 1
    /\ (pc \in {"summary", "finally", "done"}
        /\ create_group /\ mutamer_ids # <<>>)
           => NumCalls("createGroup") = 1
    /\ (HasSignal("summary") /\ create_group /\ mutamer_ids # <<>>)
           => NumCalls("createGroup") = 1

C19_Witness ==
    /\ pc = "done"
    /\ should_stop_processing
    /\ create_group /\ Len(mutamer_ids) = 2
    /\ NumCalls("createGroup") = 1

\* C20: assignToGroup is called at most once, only as the call right after a
\* createGroup that returned an id, and with the collected ids
C20_AssignAfterCreate ==
    /\ NumCalls("assignToGroup") <= 1
    /\ \A k \in 1..Len(group_calls) :
        Head(group_calls[k]) = "assignToGroup" =>
            /\ k = 2
            /\ group_calls[1] = <<"createGroup">>
            /\ group_id # NoId
            /\ Tail(group_calls[k]) = mutamer_ids
    /\ (pc \in {"summary", "finally", "done"} /\ group_id = NoId)
           => NumCalls("assignToGroup") = 0

C20_Witness ==
    /\ pc = "done"
    /\ group_id # NoId
    /\ Len(mutamer_ids) = 2
    /\ group_calls = <<<<"createGroup">>, <<"assignToGroup">> \o mutamer_ids>>

Last(q) == q[Len(q)]

Appends(step) ==
    /\ cur'.job = cur.job
    /\ Len(cur'.calls) = Len(cur.calls) + 1
    /\ Last(cur'.calls) = step

Unresolved(c) == c.listed \in {"none", "case"}

\* a step around the companion lookup: the list is asked for only for a
\* mapped file right after a submitIdentity that went well; a list with no
\* exactly equal number leaves the job without a companion, on its way to
\* the uploads and with no error counted; and the disclosure of such a job
\* that goes well ends it enrolled
LookupStep ==
    /\ Appends("listCompanions")
          => /\ cur.mapped
             /\ cur.calls # <<>> /\ Last(cur.calls) = "submitIdentity"
             /\ cur.failed = "" /\ cur.got401 = ""
    /\ (pc = "list" /\ Unresolved(cur'))
          => /\ pc' = "upload2"
             /\ cur'.companion_id = NoId
             /\ outcome' = outcome /\ loc' = loc
             /\ error_count' = error_count
             /\ signals' = signals
    /\ (pc = "disclosure" /\ Unresolved(cur) /\ Appends("submitDisclosure")
        /\ cur'.failed = "" /\ cur'.got401 = "")
          => outcome'[i] = "enrolled"

\* C21: listCompanions is called only for a file with a mapping entry and
\* only after submitIdentity succeeded; when no listed passportNumber equals
\* the mapped number exactly the job is not errored, goes on through the
\* uploads, contact and disclosure, and can end enrolled
C21_CompanionLookup == [][LookupStep]_vars

C21_Witness ==
    /\ pc = "disclosure"
    /\ cur.listed = "case"
    /\ cur.companion_id = NoId
    /\ cur.failed = "" /\ cur.got401 = ""
    /\ outcome[i] = "pending"

\* C22: the contact payload carries the companion id and the relation code
\* exactly when the lookup of the job found a companion; the relation code
\* is "1" for gender 1, "2" for gender 2 and "1" for any other gender
C22_CompanionLinkage ==
    pc = "disclosure" =>
        LET f == cur.companion_fields IN
        /\ f # <<>> <=> cur.listed = "exact"
        /\ f # <<>> =>
            /\ Len(f) = 2
            /\ f[1] = cur.companion_id /\ f[1] # NoId
            /\ cur.companion_gender = 1 => f[2] = "1"
            /\ cur.companion_gender = 2 => f[2] = "2"
            /\ cur.companion_gender \notin {1, 2} => f[2] = "1"

C22_Witness ==
    /\ pc = "disclosure"
    /\ cur.listed = "exact"
    /\ cur.companion_gender = 0
    /\ cur.companion_fields = <<73, "1">>

TimesCalled(step) ==
    Cardinality({k \in 1..Len(cur'.calls) : cur'.calls[k] = step})

\* a step of a job: no remote step is in its calls twice, and the step that
\* failed is not the one called next
NoRetryStep ==
    /\ \A k \in 1..Len(StepOrder(TRUE)) :
          TimesCalled(StepOrder(TRUE)[k]) <= 1
    /\ \A k \in 1..Len(cur'.calls) : \E n \in 1..Len(StepOrder(TRUE)) :
          cur'.calls[k] = StepOrder(TRUE)[n]
    /\ cur.failed # "" => ~Appends(cur.failed)
    /\ cur.got401 # "" => ~Appends(cur.got401)

\* C24: within one job every remote step is called at most once (the upload
\* once with type code 2 and once with type code 3), and a call that failed
\* is not issued again for that job
C24_NoRetry == [][NoRetryStep]_vars

C24_Witness ==
    /\ pc = "loop"
    /\ cur.failed = "submitContactInfo"
    /\ Last(cur.calls) = "submitContactInfo"
    /\ Len(cur.calls) = 5
    /\ outcome[cur.job] = "errored"

ProgressValues ==
    [k \in {n \in 1..Len(signals) : signals[n].sig = "progress"}
        |-> signals[k].val[1]]

\* C29: one progress signal per job with outcome enrolled, under-age or
\* errored, each carrying the share of jobs done so far, so that a run that
\* ends without the stop flag has emitted progress 100
C29_ProgressPerJob ==
    /\ NumSignals("progress")
         = Cardinality({j \in Jobs :
                          outcome[j] \in {"enrolled", "under_age", "errored"}})
    /\ (pc = "done" /\ ~should_stop_processing)
          => \E k \in DOMAIN ProgressValues : ProgressValues[k] = 100

\* the jobs the loop has begun
Started == {j \in Jobs : outcome[j] # "pending" \/ j = cur.job}

CountersSum == processed_count + error_count + under_age_count

\* C32: the three counters together never exceed the number of jobs begun,
\* and since the job of the loop began at most one of them has grown, by one
C32_CountersBounded ==
    /\ CountersSum <= Cardinality(Started)
    /\ CountersSum <= NumJobs
    /\ cur.job # 0 =>
        /\ processed_count - cur.before[1] \in {0, 1}
        /\ error_count - cur.before[2] \in {0, 1}
        /\ under_age_count - cur.before[3] \in {0, 1}
        /\ CountersSum - (cur.before[1] + cur.before[2] + cur.before[3])
              \in {0, 1}

C32_Witness ==
    /\ pc = "loop" /\ cur.job = 2
    /\ cur.failed = "submitContactInfo"
    /\ cur.before = <<1, 0, 0>>
    /\ processed_count = 1 /\ error_count = 1 /\ under_age_count = 0

\* the id submitIdentity returns for job j
IdOf(j) == 100 + j

\* C33: the collected ids are ids submitIdentity returned for enrolled jobs,
\* one per job at most and in input order; the id of a job that ended
\* errored or halted the batch is in no list handed to assignToGroup
C33_IdsOfEnrolledOnly ==
    /\ \A k \in 1..Len(mutamer_ids) :
          \E j \in Jobs : mutamer_ids[k] = IdOf(j) /\ outcome[j] = "enrolled"
    /\ \A k \in 1..(Len(mutamer_ids) - 1) : mutamer_ids[k] < mutamer_ids[k + 1]
    /\ \A g \in 1..Len(group_calls) :
          Head(group_calls[g]) = "assignToGroup" =>
              \A k \in 2..Len(group_calls[g]) :
                  \E j \in Jobs : /\ group_calls[g][k] = IdOf(j)
                                  /\ outcome[j] = "enrolled"

C33_Witness ==
    /\ pc = "loop" /\ i = 3 /\ cur.job = 2
    /\ cur.failed = "submitDisclosure"
    /\ IsPrefix(<<"scanPassport", "submitIdentity">>, cur.calls)
    /\ outcome[1] = "enrolled" /\ outcome[2] = "errored"
    /\ mutamer_ids = <<IdOf(1)>>

InFolder(folder) == Cardinality({j \in Jobs : loc[j] = folder})

\* C34: once the batch is over each counter is the number of the batch's
\* files in its folder
C34_CountersMatchFolders ==
    pc = "done" =>
        /\ error_count = InFolder("error")
        /\ processed_count = InFolder("processed")
        /\ under_age_count = InFolder("under_age")

\* C36: the error signal, which opens the re-authenticate dialog, is
\* emitted at most once in a batch
C36_OneAuthPrompt == NumSignals("error") <= 1

\* C35: the start button is enabled only when the worker thread has left
\* run(), so no second worker is started beside a running one
C35_OneWorker ==
    /\ gui.start_btn => ~WorkerRunning
    /\ ~gui.overlap

Collected(j) == \E k \in 1..Len(mutamer_ids) : mutamer_ids[k] = IdOf(j)

\* C37: of the jobs that share a path at most one gets an id from
\* submitIdentity into the list, that is, no file is enrolled twice
C37_NoDoubleEnrolment ==
    \A j, k \in Jobs :
        (j < k /\ passport_files[j] = passport_files[k])
            => ~(Collected(j) /\ Collected(k))

\* ------------------------------------------------------------------------
\* Properties of the normalisation functions (NormSpec)
\* ------------------------------------------------------------------------
Cleaned(n) == fn.op = "clean_passport_data" /\ fn.n = n

AllBlank(v) == \A k \in 1..Len(v) : IsSpace(v[k])

\* v without its characters that are neither letter nor blank, and of the
\* blanks only those that follow some letter and stand right before a letter
Normalised(v) ==
    LET kept == SelectSeq(v, KeepsLetterOrSpace)
        marked == [k \in 1..Len(kept) |->
                     [c |-> kept[k],
                      stays |-> \/ IsLetter(kept[k])
                                \/ /\ k < Len(kept)
                                   /\ IsLetter(kept[k + 1])
                                   /\ \E h \in 1..(k - 1) : IsLetter(kept[h])]]
        Stays(x) == x.stays
        left == SelectSeq(marked, Stays)
    IN [k \in 1..Len(left) |-> left[k].c]

\* C11: cleaning a name that was already cleaned gives the same name
C11_Idempotent == Cleaned(2) => fn.res = fn.arg

\* C12 as stated: empty for null, "", blanks only and exactly the strings
\* null / none in any letter case; every other input normalised
C12_AsStated ==
    Cleaned(1) =>
        LET v == fn.arg.first_name IN
        fn.res.first_name =
            IF v = PyNone \/ AllBlank(v)
               \/ Lower(v) = NullWord \/ Lower(v) = NoneWord
            THEN <<>> ELSE Normalised(v)

\* C12 amended: the strings null / none are recognised in any letter case
\* also with blanks around them; every other input has its characters that
\* are no letter or blank removed, blank runs collapsed, and is trimmed
C12_SanitizeName ==
    Cleaned(1) =>
        LET v == fn.arg.first_name IN
        fn.res.first_name =
            IF v = PyNone \/ AllBlank(v)
               \/ Lower(Strip(v)) = NullWord \/ Lower(Strip(v)) = NoneWord
            THEN <<>> ELSE Normalised(v)

C12_Witness ==
    /\ Cleaned(1)
    /\ fn.arg.first_name = <<"n", "-", " ", " ", "u">>
    /\ fn.res.first_name = <<"n", " ", "u">>

\* C13: for an ISO birth date the age is the difference of the years, less
\* one exactly when today's (month, day) is before the birth's; for
\* 1990-05-15 it is 33 on 2024-05-14 and 34 from 2024-05-15 on
C13_ComputeAge ==
    (fn.op = "calculate_age" /\ fn.n = 1) =>
        LET s == fn.arg.birth_date_str
            t == fn.arg.today
        IN
        (s.sep = "-" /\ ValidDate(s.a, s.b, s.c)) =>
            /\ fn.res.ok
            /\ fn.res.val = t.y - s.a
                 - (IF t.m * 100 + t.d < s.b * 100 + s.c THEN 1 ELSE 0)
            /\ (s = DateStr("-", 1990, 5, 15) /\ t = Date(2024, 5, 14))
                   => fn.res.val = 33
            /\ (s = DateStr("-", 1990, 5, 15) /\ t.y = 2024
                /\ (t.m > 5 \/ (t.m = 5 /\ t.d >= 15)))
                   => fn.res.val = 34

C13_Witness ==
    /\ fn.op = "calculate_age" /\ fn.n = 1
    /\ fn.arg.birth_date_str = DateStr("-", 1990, 5, 15)
    /\ fn.arg.today = Date(2024, 5, 15)
    /\ fn.res = Age(34)

C15_MaritalAndProfession ==
    (fn.op = "marital_and_profession" /\ fn.n = 1) =>
        /\ fn.arg.sex = "M"
             => fn.res = [martial_status_id |-> 1, profession |-> "Business"]
        /\ (fn.arg.sex = "F" /\ fn.arg.married)
             => fn.res = [martial_status_id |-> 2, profession |-> "Housewife"]
        /\ (fn.arg.sex # "M" /\ ~(fn.arg.sex = "F" /\ fn.arg.married))
             => fn.res = [martial_status_id |-> 1, profession |-> "Household"]

C15_Witness ==
    /\ fn.op = "marital_and_profession" /\ fn.n = 1
    /\ fn.arg = [sex |-> "F", married |-> FALSE]
    /\ fn.res.profession = "Household"

\* ------------------------------------------------------------------------
\* Properties of the set-up and payload functions (NormSpec)
\* ------------------------------------------------------------------------
Applied(op) == fn.op = op /\ fn.n = 1

\* a text without the blanks at its two ends
Trimmed(v) ==
    LET solid == {k \in 1..Len(v) : v[k] # " "} IN
    IF solid = {} THEN <<>> ELSE SubSeq(v, SetMin(solid), SetMax(solid))

DigitPositions(s) == {k \in 1..Len(s) : s[k] \in DigitChars}

\* the last maximal run of digits of s, empty when s has no digit
LastRun(s) ==
    IF DigitPositions(s) = {} THEN <<>>
    ELSE LET e == SetMax(DigitPositions(s))
             a == SetMin({p \in 1..e :
                             \A k \in p..e : k \in DigitPositions(s)})
         IN SubSeq(s, a, e)

\* the digits s ends with, empty when its last character is no digit
TrailingRun(s) ==
    LET a == SetMin({p \in 1..(Len(s) + 1) :
                        \A k \in p..Len(s) : k \in DigitPositions(s)})
    IN SubSeq(s, a, Len(s))

CustomGiven(a) ==
    a.use_separate_iqama /\ a.custom_iqama_number \notin {PyNone, <<>>}

\* the statement with the run of digits at the end of the string: a
\* passport number with a letter after its last digit gives that digit run,
\* not the empty string
C23_AsStated ==
    Applied("iqama_number") =>
        fn.res = IF CustomGiven(fn.arg) THEN fn.arg.custom_iqama_number
                 ELSE TrailingRun(fn.arg.passport_number)

\* C23: the residency number is the custom value when separate-residency
\* mode is on and a custom number was given; otherwise it is the last
\* maximal run of digits of the passport number, wherever in the string that
\* run ends, and empty when the number has no digit
C23_ResidencyNumber ==
    Applied("iqama_number") =>
        fn.res = IF CustomGiven(fn.arg) THEN fn.arg.custom_iqama_number
                 ELSE LastRun(fn.arg.passport_number)

C23_Witness ==
    /\ Applied("iqama_number")
    /\ ~fn.arg.use_separate_iqama
    /\ fn.arg.passport_number = <<"A", "1", "2", "A">>
    /\ fn.res = <<"1", "2">>

DigitCount(text) == Cardinality({k \in 1..Len(text) : text[k] \in DigitChars})

Blank(text) == \A k \in 1..Len(text) : text[k] = " "

\* what a batch needs from the operator
RequiredInputs(a) ==
    /\ Len(a.passport_files) >= 1
    /\ ~Blank(a.email)
    /\ DigitCount(a.phone) = 10
    /\ "bearer_token" \in DOMAIN a.token_data
    /\ a.token_data.bearer_token # ""
    /\ a.iqama_checked =>
          (a.iqama_image_path # NoPath /\ ~Blank(a.iqama_number))
    /\ a.group_checked => ~Blank(a.group_name)

\* C25: the worker is started only with at least one passport file, an
\* email, a phone text of ten digits, a bearer token and, where the box is
\* ticked, a residency image with its number and a group name; with any of
\* them missing the request returns and no worker is started
C25_StartNeedsInputs ==
    Applied("start_processing") =>
        /\ fn.res.started => RequiredInputs(fn.arg)
        /\ ~RequiredInputs(fn.arg) => ~fn.res.started

C25_Witness ==
    /\ Applied("start_processing")
    /\ fn.res.started
    /\ fn.arg.iqama_checked /\ fn.arg.group_checked
    /\ Len(fn.arg.phone) = 12

Credentials(h) ==
    <<h.Authorization, h.EntityId, h.activeentityid, h.activeentitytypeid,
      h.contractId>>

\* C26: the shared headers stay as built from the token: no wrapper's key
\* reaches them, and every request sent carries the token's bearer, entity
\* and contract values
C26_HeadersReadOnly ==
    fn.op = "transport" =>
        LET h == fn.res.headers
            t == fn.arg
            of(key, default) == IF key \in DOMAIN t THEN t[key] ELSE default
        IN
        /\ DOMAIN h = {"Host", "EntityId", "Authorization", "activeentityid",
                       "activeentitytypeid", "contractId"}
        /\ Credentials(h) = <<of("bearer_token", ""), of("entity_id", "None"),
                              of("active_entity_id", "None"),
                              of("active_entity_type_id", "None"),
                              of("contract_id", "None")>>
        /\ \A k \in 1..Len(fn.res.sent) :
              Credentials(fn.res.sent[k]) = Credentials(h)

C26_Witness ==
    /\ fn.op = "transport" /\ fn.n = 3
    /\ fn.arg = FullToken("Bearer B", "e2", "c2")
    /\ DOMAIN fn.res.sent[1] \ DOMAIN fn.res.headers = {"Referer"}
    /\ DOMAIN fn.res.sent[2] \ DOMAIN fn.res.headers = {"ContentType"}
    /\ fn.res.sent[3].Authorization = "Bearer B"

Ordinal(d) == d.y * 10000 + d.m * 100 + d.d

\* C27: a birth date that parses and is not after today gives an age of at
\* least 0 and does not open the under-age gate; one after today gives a
\* negative age
C27_GateOnlyForFuture ==
    Applied("under_age_gate") =>
        LET birth_date == FirstParse(fn.arg.birth_date_str, 1) IN
        (fn.arg.birth_date_str # EmptyStr /\ birth_date # NoDate) =>
            /\ fn.res.age.ok
            /\ Ordinal(birth_date) <= Ordinal(fn.arg.today)
                  => (fn.res.age.val >= 0 /\ ~fn.res.routed)
            /\ Ordinal(birth_date) > Ordinal(fn.arg.today)
                  => fn.res.age.val < 0

C27_Witness ==
    /\ Applied("under_age_gate")
    /\ fn.arg.birth_date_str = DateStr("-", 2023, 6, 1)
    /\ fn.arg.today = Date(2024, 5, 15)
    /\ fn.res.age = Age(0)
    /\ ~fn.res.routed

LettersAndSingleBlanks(v) ==
    /\ \A k \in 1..Len(v) : IsLetter(v[k]) \/ v[k] = " "
    /\ \A k \in 1..(Len(v) - 1) : ~(v[k] = " " /\ v[k + 1] = " ")

\* C28: after clean_passport_data each of the four name fields is a string
\* of letters and single blanks, never None, also when the OCR left the
\* field out, and the English first name of the payload is not None
C28_NamesNeverNull ==
    Applied("first_name_en") =>
        /\ \A f \in name_fields :
              /\ Get(fn.res.personal_data, f) # PyNone
              /\ LettersAndSingleBlanks(Get(fn.res.personal_data, f))
        /\ fn.res.first_name_en # PyNone

\* C30: the key of the operator's record is used, trimmed, exactly when the
\* record has one that is not empty after trimming and not "0"; in every
\* other case the fallback key is used
C30_ApiKey ==
    Applied("api_key") =>
        LET u == fn.arg
            usable == /\ u.user /\ u.has_key
                      /\ u.api_key.t # "none"
                      /\ Trimmed(u.api_key.v) # <<>>
                      /\ Trimmed(u.api_key.v) # <<"0">>
        IN fn.res = IF usable THEN Trimmed(u.api_key.v) ELSE FallbackKey

C30_Witness ==
    /\ Applied("api_key")
    /\ fn.arg.api_key = [t |-> "str", v |-> <<" ", "k">>]
    /\ fn.res = <<"k">>

\* ------------------------------------------------------------------------
\* Properties of the authorization directory (NormSpec)
\* ------------------------------------------------------------------------
SameFolded(a, b) ==
    /\ Len(a) = Len(b)
    /\ \A k \in 1..Len(a) : LowerChar(a[k]) = LowerChar(b[k])

\* the rows of the directory that are for the email asked
RowsFor(a) ==
    {k \in 1..Len(a.records) : SameFolded(a.records[k].email, a.email)}

Active(record) == Trimmed(record.status) = <<"1">>

\* a denial carries a message and no record, an authorization the record
DenialOrRecord(a, r) ==
    /\ ~r.is_authorized => (r.message # "" /\ DOMAIN r.user_data = {})
    /\ r.is_authorized =>
          \E k \in RowsFor(a) :
              /\ r.user_data.email = a.records[k].email
              /\ r.user_data.api_key = a.records[k].api_key

\* the statement with any record of the email: a directory with two rows
\* for the email, the first inactive and the second active, denies
C31_AsStated ==
    Applied("verify_user") =>
        /\ fn.res.is_authorized <=>
              (fn.arg.sheet = "open"
               /\ \E k \in RowsFor(fn.arg) : Active(fn.arg.records[k]))
        /\ DenialOrRecord(fn.arg, fn.res)

\* C31: an email is authorized exactly when the directory can be read and
\* the first of its rows for that email, compared without regard to letter
\* case, has the status "1"; a denial carries a message and no user record
C31_Verify ==
    Applied("verify_user") =>
        /\ fn.res.is_authorized <=>
              (fn.arg.sheet = "open" /\ RowsFor(fn.arg) # {}
               /\ Active(fn.arg.records[SetMin(RowsFor(fn.arg))]))
        /\ DenialOrRecord(fn.arg, fn.res)
        /\ fn.res.is_authorized =>
              fn.res.user_data.email
                  = fn.arg.records[SetMin(RowsFor(fn.arg))].email

C31_Witness ==
    /\ Applied("verify_user")
    /\ fn.arg.email = <<"a">>
    /\ Len(fn.arg.records) = 2
    /\ fn.arg.records[1].email = <<"b">>
    /\ fn.arg.records[2].email = <<"A">>
    /\ fn.arg.records[2].status = <<" ", "1">>
    /\ fn.res.is_authorized
    /\ fn.res.user_data.email = <<"A">>

====
